---- MODULE Spec2Model ----
(***************************************************************************)
(* Verification model of crates/cranelift/src/func_environ.rs: the         *)
(* FuncEnvironment that lowers one WebAssembly function to Cranelift IR.   *)
(*                                                                         *)
(* Specification Spec (fuel metering and epoch interruption).  The         *)
(* translator is driven operator by operator; every hook is an operator    *)
(* over a record m that holds the translator's state together with the     *)
(* run-time state of ONE execution path through the code emitted so far.   *)
(* An instruction a hook emits takes effect on that path exactly when the  *)
(* path is inside the block being emitted (m.path.mode = "run"); a path    *)
(* that branched forward waits for the label it jumped to, a path that     *)
(* returned, trapped or tail-called has left the function.                 *)
(***************************************************************************)
EXTENDS Integers, Sequences, FiniteSets, TLC

(* ------------------------------ bounds -------------------------------- *)
\* Operators with a cost are translated while the path has executed fewer than
\* MaxCost of them and fewer than MaxPending units of fuel are pending.
MaxCost == 2
MaxPending == 2
MaxDepth == 1
MaxInitFuel == 2
MaxEpoch == 1

(* ------------------------- program constants -------------------------- *)
\* FuncEnvironment::new: "Start with at least one fuel being consumed".
BaseFuel == 1

VARIABLES
    tunables,            \* Tunables: consume_fuel, epoch_interruption
    debug_assertions,    \* cfg(debug_assertions): is debug_assert_eq! compiled in
    phase,               \* "new" | "body" | "tail" | "done" | "panicked"
    fuel_consumed,       \* FuncEnvironment::fuel_consumed
    reachable,           \* FuncTranslationState::reachable
    control_stack,       \* FuncTranslationState::control_stack
    path,                \* where the tracked execution path is
    fuel_var,            \* run-time value of the cached fuel variable
    rt_fuel,             \* run-time value of VMRuntimeLimits.fuel_consumed
    entry_fuel,          \* its value when the path entered the function
    charged,             \* total of the iadd_imm increments executed on the path
    cost,                \* total static cost of the operators executed on the path
    epoch,               \* run-time value of the engine's epoch counter
    rt_deadline,         \* run-time value of VMRuntimeLimits.epoch_deadline
    epoch_deadline_var,  \* run-time value of the cached deadline variable
    last_site,           \* the check site the path passed in the last step, if any
    events,              \* calls, terminators and builtin calls the last step executed
    checks               \* epoch checks the last step executed

fuelVars == <<tunables, debug_assertions, phase, fuel_consumed, reachable,
              control_stack, path, fuel_var, rt_fuel, entry_fuel, charged, cost,
              epoch, rt_deadline, epoch_deadline_var, last_site, events, checks>>

\* Funcref tables and call sites (specification SpecCall).
VARIABLES
    table_elems,         \* the funcref table: slot -> raw pointer-sized word
    written,             \* per slot, the value last given to table.set, if any
    last                 \* the last operation executed: its inputs, trace and outcome

callVars == <<table_elems, written, last>>

\* Externref tables and their barriers (specification SpecExtern).
VARIABLES
    extern_elems,        \* the externref table: slot -> reference (0 is null)
    ref_count,           \* the reference count of every externref object
    activations,         \* the bump region of the VMExternRefActivationsTable
    in_flight,           \* the externref arguments of the calls in progress
    host_holds,          \* the counted references held outside the generated code
    dropped              \* the objects drop_externref has deallocated

externVars == <<extern_elems, ref_count, activations, in_flight, host_holds, dropped>>

\* Memories and their index type (specification SpecMem).
VARIABLES
    pointer_type,        \* isa.pointer_type(): I32 or I64
    memory64,            \* memory_plans[index].memory.memory64
    pages,               \* the memory's current size in pages
    mem_last             \* the last memory operation: builtin result and stack value

memVars == <<pointer_type, memory64, pages, mem_last>>

\* The vmctx global value of one function (specification SpecEnv).
VARIABLES
    enable_pcc,          \* isa.flags().enable_pcc()
    self_vmctx,          \* FuncEnvironment::vmctx: <<>> is None, <<gv>> is Some(gv)
    global_values,       \* func.global_values
    vmctx_memtypes,      \* the placeholder memory types created for the vmctx
    handles,             \* the handles the vmctx requests have returned
    pcc_vmctx_memtype,   \* FuncEnvironment::pcc_vmctx_memtype: <<>> or <<mt>>
    memory_types,        \* func.memory_types
    global_value_facts,  \* func.global_value_facts: per global value, <<>> or <<fact>>
    heaps                \* FuncEnvironment::heaps

envVars == <<enable_pcc, self_vmctx, global_values, vmctx_memtypes, handles,
             pcc_vmctx_memtype, memory_types, global_value_facts, heaps>>

\* The builtin-signature cache of one function (specification SpecSig).
VARIABLES
    builtin_function_signatures,  \* per builtin: <<>> is None, <<sig>> is Some(sig)
    signatures,          \* func.dfg.signatures
    imports,             \* per builtin, the import_signature calls made for it
    sig_refs             \* per builtin, the signature refs its references returned

sigVars == <<builtin_function_signatures, signatures, imports, sig_refs>>

\* The externref barriers executed block by block by the threads of the
\* runtime (specifications SpecBarrier and SpecThreads).
VARIABLES
    barrier,             \* per thread: the barrier it executes and its SSA values
    raced                \* two table.set executions overlapped on one slot

barrierVars == <<barrier, raced>>

\* The memory-checker hooks of one function (specification SpecMemcheck).
VARIABLES
    wmemcheck_feature,   \* cfg(feature = "wmemcheck")
    wmemcheck,           \* self.wmemcheck; the field exists only with the feature
    func_name,           \* the function's name in the name section, "none" if absent
    translating,         \* before_translate_function has run
    memcheck_sigs,       \* memory-checker builtin signatures requested
    memcheck_calls       \* call_indirect instructions emitted to memory-checker builtins

memcheckVars == <<wmemcheck_feature, wmemcheck, func_name, translating,
                  memcheck_sigs, memcheck_calls>>

\* One execution that iterates a loop of the function (specification SpecLoop).
VARIABLES
    in_loop,             \* the path has entered the loop
    fuel_at_loop,        \* the fuel variable when the path entered the loop
    iterations,          \* back edges the path has taken
    out_of_gas_calls     \* out_of_gas calls made by the loop header's fuel check

loopVars == <<in_loop, fuel_at_loop, iterations, out_of_gas_calls>>

restVars == <<sigVars, barrierVars, memcheckVars, loopVars>>

vars == <<fuelVars, callVars, externVars, memVars, envVars, restVars>>

(* ------------------------------ operators ------------------------------ *)
PlainOps == {"nop", "drop", "i32.const"}
CallOps == {"call", "call_indirect", "call_ref"}
ReturnCallOps == {"return_call", "return_call_indirect", "return_call_ref"}
\* Operators whose translation calls a builtin: table.set on an externref table
\* (drop_externref, when the old element's count reaches zero) and memory.grow.
BuiltinOps == {"table.set", "memory.grow"}

\* The static cost of an operator as the documentation states it.
StaticCost(op) ==
    IF op \in {"nop", "drop", "block", "loop", "unreachable", "return", "else", "end"}
    THEN 0 ELSE 1

(* --------------------------- the machine m ----------------------------- *)
Running == [mode |-> "run", h |-> 0, part |-> "-"]
Waiting(h, part) == [mode |-> "wait", h |-> h, part |-> part]
Left(kind) == [mode |-> kind, h |-> 0, part |-> "-"]

\* The state a step starts from.  Once the path has left the function (mode
\* "exit") or taken a back edge (mode "loop") its run-time values are dropped:
\* the translator goes on, the path is "gone".
Machine ==
    IF path.mode \in {"run", "wait"}
    THEN [fuel_consumed |-> fuel_consumed, reachable |-> reachable,
          control_stack |-> control_stack, path |-> path, fuel_var |-> fuel_var,
          rt_fuel |-> rt_fuel, charged |-> charged, cost |-> cost,
          rt_deadline |-> rt_deadline, epoch_deadline_var |-> epoch_deadline_var,
          events |-> <<>>, checks |-> <<>>, panicked |-> FALSE]
    ELSE [fuel_consumed |-> fuel_consumed, reachable |-> reachable,
          control_stack |-> control_stack, path |-> Left("gone"), fuel_var |-> 0,
          rt_fuel |-> 0, charged |-> 0, cost |-> 0,
          rt_deadline |-> rt_deadline, epoch_deadline_var |-> 0,
          events |-> <<>>, checks |-> <<>>, panicked |-> FALSE]

Live(m) == m.path.mode = "run"

\* The path executes an instruction that is a call, a terminator or a builtin call.
Event(m, kind) ==
    IF Live(m)
    THEN [m EXCEPT !.events = Append(@, [kind |-> kind, rt_fuel |-> m.rt_fuel,
                                         fuel_var |-> m.fuel_var,
                                         pending |-> m.fuel_consumed])]
    ELSE m

\* The path executes an instruction that leaves the function.
Leave(m, kind) ==
    IF Live(m) THEN [Event(m, kind) EXCEPT !.path = Left("exit")] ELSE m

(* ------------------------------- fuel ---------------------------------- *)
fuel_increment_var(m) ==
    LET consumption == m.fuel_consumed
        m1 == [m EXCEPT !.fuel_consumed = 0]
    IN  IF consumption = 0 THEN m1
        ELSE IF Live(m1)
             THEN [m1 EXCEPT !.fuel_var = @ + consumption, !.charged = @ + consumption]
             ELSE m1

fuel_load_into_var(m) ==
    IF Live(m) THEN [m EXCEPT !.fuel_var = m.rt_fuel] ELSE m

fuel_save_from_var(m) ==
    IF Live(m) THEN [m EXCEPT !.rt_fuel = m.fuel_var] ELSE m

\* The out_of_gas builtin: it returns having injected refill units of fuel, or none.
out_of_gas(m, refill) ==
    IF Live(m)
    THEN [Event(m, "out_of_gas") EXCEPT !.rt_fuel = IF refill = 0 THEN @ ELSE 0 - refill]
    ELSE m

\* A fuel check that does not reload the fuel after out_of_gas.
fuel_check_without_reload(m, refill) ==
    LET m1 == fuel_increment_var(m)
    IN  IF Live(m1) /\ m1.fuel_var >= 0
        THEN out_of_gas(fuel_save_from_var(m1), refill)
        ELSE m1

fuel_check(m, refill) ==
    LET m1 == fuel_increment_var(m)
    IN  IF Live(m1) /\ m1.fuel_var >= 0
        THEN fuel_load_into_var(out_of_gas(fuel_save_from_var(m1), refill))
        ELSE m1

\* A function entry that loads the fuel and does not check it.
fuel_function_entry_without_check(m, refill) == fuel_load_into_var(m)

fuel_function_entry(m, refill) == fuel_check(fuel_load_into_var(m), refill)

fuel_function_exit(m) == fuel_save_from_var(m)

fuel_cost(op) ==
    IF op \in {"nop", "drop"} THEN 0
    ELSE IF op \in {"block", "loop", "unreachable", "return", "else", "end"} THEN 0
    ELSE 1

fuel_before_op(m, op) ==
    IF ~m.reachable
    THEN IF debug_assertions /\ m.fuel_consumed # 0
         THEN [m EXCEPT !.panicked = TRUE]
         ELSE m
    ELSE LET m1 == [m EXCEPT !.fuel_consumed = @ + fuel_cost(op)]
         IN  IF op \in {"unreachable", "return", "call_indirect", "call",
                        "return_call", "return_call_indirect"}
             THEN fuel_save_from_var(fuel_increment_var(m1))
             ELSE IF op \in {"loop", "if", "br", "br_if", "br_table", "end", "else"}
             THEN fuel_increment_var(m1)
             ELSE m1

fuel_after_op(m, op) ==
    IF op \in {"call", "call_indirect"} THEN fuel_load_into_var(m) ELSE m

(* ------------------------------- epoch --------------------------------- *)
epoch_load_deadline_into_var(m) ==
    IF Live(m) THEN [m EXCEPT !.epoch_deadline_var = m.rt_deadline] ELSE m

\* The new_epoch builtin: it sets and returns the new deadline.
new_epoch(m, new_deadline) ==
    [Event(m, "new_epoch") EXCEPT !.rt_deadline = new_deadline]

\* What one epoch check saw and did: the epoch counter it loaded, the store's
\* deadline and the cached deadline it found, the new_epoch calls it made, the
\* deadline new_epoch returned (0 when not called) and the cached deadline it left.
EpochCheckRecord(m, calls, returned, after) ==
    [epoch |-> epoch, deadline |-> m.rt_deadline, cached |-> m.epoch_deadline_var,
     calls |-> calls, returned |-> returned, after |-> after.epoch_deadline_var]

Checked(m, calls, returned, after) ==
    [after EXCEPT !.checks = Append(@, EpochCheckRecord(m, calls, returned, after))]

\* An epoch check that calls new_epoch as soon as the cached deadline is reached.
epoch_check_without_doublecheck(m, new_deadline) ==
    IF ~Live(m) THEN m
    ELSE LET cur_epoch_value == epoch
         IN  IF cur_epoch_value >= m.epoch_deadline_var
             THEN LET m2 == new_epoch(m, new_deadline)
                  IN  Checked(m, 1, new_deadline,
                              [m2 EXCEPT !.epoch_deadline_var = new_deadline])
             ELSE Checked(m, 0, 0, m)

epoch_check(m, new_deadline) ==
    IF ~Live(m) THEN m
    ELSE LET cur_epoch_value == epoch
         IN  IF cur_epoch_value >= m.epoch_deadline_var
             THEN LET m1 == epoch_load_deadline_into_var(m)
                  IN  IF cur_epoch_value >= m1.epoch_deadline_var
                      THEN LET m2 == new_epoch(m1, new_deadline)
                           IN  Checked(m, 1, new_deadline,
                                       [m2 EXCEPT !.epoch_deadline_var = new_deadline])
                      ELSE Checked(m, 0, 0, m1)
             ELSE Checked(m, 0, 0, m)

epoch_function_entry(m, new_deadline) ==
    epoch_check(epoch_load_deadline_into_var(m), new_deadline)

(* ----------------------- the FuncEnvironment hooks --------------------- *)
\* A loop header that checks fuel only.
translate_loop_header_fuel_only(m, in) ==
    IF tunables.consume_fuel THEN fuel_check(m, in.refill) ELSE m

\* A loop header that checks the epoch only.
translate_loop_header_epoch_only(m, in) ==
    IF tunables.epoch_interruption THEN epoch_check(m, in.new_deadline) ELSE m

translate_loop_header(m, in) ==
    LET m1 == IF tunables.consume_fuel THEN fuel_check(m, in.refill) ELSE m
    IN  IF tunables.epoch_interruption THEN epoch_check(m1, in.new_deadline) ELSE m1

before_translate_operator(m, op) ==
    IF tunables.consume_fuel THEN fuel_before_op(m, op) ELSE m

after_translate_operator(m, op) ==
    IF tunables.consume_fuel /\ m.reachable THEN fuel_after_op(m, op) ELSE m

before_unconditionally_trapping_memory_access(m) ==
    IF tunables.consume_fuel
    THEN fuel_save_from_var(fuel_increment_var(m))
    ELSE m

before_translate_function(m, in) ==
    LET m1 == IF tunables.consume_fuel THEN fuel_function_entry(m, in.refill) ELSE m
    IN  IF tunables.epoch_interruption
        THEN epoch_function_entry(m1, in.new_deadline)
        ELSE m1

after_translate_function(m) ==
    IF tunables.consume_fuel /\ m.reachable THEN fuel_function_exit(m) ELSE m

(* ---------------- the decoder's translation state (driver) ------------- *)
\* cranelift-wasm's FuncTranslationState, which the decoder keeps and hands to
\* before_operator(op, reachable): a control frame per open block, loop or if.
Frame(kind, head) ==
    [kind |-> kind, branched |-> FALSE, head_is_reachable |-> head,
     consequent_ends_reachable |-> "none"]

Push(m, frame) == [m EXCEPT !.control_stack = Append(@, frame)]

Top(m) == m.control_stack[Len(m.control_stack)]

Pop(m) == [m EXCEPT !.control_stack = SubSeq(@, 1, Len(@) - 1)]

\* A loop's label is its header: a branch to it never reaches the loop's end.
set_branched_to_exit(m, i) ==
    IF m.control_stack[i].kind = "loop" THEN m
    ELSE [m EXCEPT !.control_stack[i].branched = TRUE]

\* The path takes a branch to the label of frame i.
TakeBranch(m, i) ==
    IF ~Live(m) THEN m
    ELSE IF m.control_stack[i].kind = "loop"
         THEN [m EXCEPT !.path = Left("loop")]
         ELSE [m EXCEPT !.path = Waiting(i, "end")]

\* The label the path waits for is reached: the end (or else) of frame h.
Arrive(m, h, parts) ==
    IF m.path.mode = "wait" /\ m.path.h = h /\ m.path.part \in parts
    THEN [m EXCEPT !.path = Running]
    ELSE m

\* A Wasm call: the callee runs and leaves its own fuel use in VMRuntimeLimits.
translate_call(m, op, in) ==
    IF Live(m)
    THEN [Event(m, op) EXCEPT !.rt_fuel = @ + in.callee_fuel]
    ELSE m

translate_return_call(m, op) == [Leave(m, op) EXCEPT !.reachable = FALSE]

translate_operator(m, op, in) ==
    LET n == Len(m.control_stack) IN
    CASE op \in PlainOps -> m
      [] op = "i32.load" ->
            IF in.oob
            THEN [Leave(before_unconditionally_trapping_memory_access(m), "trap_oob")
                    EXCEPT !.reachable = FALSE]
            ELSE m
      [] op = "block" -> Push(m, Frame("block", TRUE))
      [] op = "loop" -> translate_loop_header(Push(m, Frame("loop", TRUE)), in)
      [] op = "if" ->
            LET m1 == Push(m, Frame("if", TRUE))
            IN  IF Live(m1) /\ ~in.taken
                THEN [m1 EXCEPT !.path = Waiting(n + 1, "else")]
                ELSE m1
      [] op = "else" ->
            LET m1 == [m EXCEPT !.control_stack[n].consequent_ends_reachable = "true"]
            IN  IF Live(m1)
                THEN [m1 EXCEPT !.path = Waiting(n, "end")]
                ELSE Arrive(m1, n, {"else"})
      [] op = "end" -> Arrive(Pop(m), n, {"else", "end"})
      [] op = "br" ->
            LET i == n - in.depth
            IN  [TakeBranch(set_branched_to_exit(m, i), i) EXCEPT !.reachable = FALSE]
      [] op = "br_if" ->
            LET i == n - in.depth
                m1 == set_branched_to_exit(m, i)
            IN  IF in.taken THEN TakeBranch(m1, i) ELSE m1
      [] op = "br_table" ->
            LET i == n - in.depth
                m1 == set_branched_to_exit(set_branched_to_exit(m, i), n)
            IN  [TakeBranch(m1, IF in.taken THEN i ELSE n) EXCEPT !.reachable = FALSE]
      [] op = "return" -> [Leave(m, "return") EXCEPT !.reachable = FALSE]
      [] op = "unreachable" -> [Leave(m, "unreachable") EXCEPT !.reachable = FALSE]
      [] op \in CallOps -> translate_call(m, op, in)
      [] op = "table.set" -> IF in.taken THEN Event(m, "drop_externref") ELSE m
      [] op = "memory.grow" -> Event(m, "memory_grow")
      [] op \in ReturnCallOps -> translate_return_call(m, op)

translate_unreachable_operator(m, op) ==
    LET n == Len(m.control_stack) IN
    CASE op = "if" -> Push(m, Frame("if", FALSE))
      [] op \in {"block", "loop"} -> Push(m, Frame("block", FALSE))
      [] op = "else" ->
            LET m1 == [m EXCEPT !.control_stack[n].consequent_ends_reachable = "false"]
            IN  IF Top(m).head_is_reachable
                THEN Arrive([m1 EXCEPT !.reachable = TRUE], n, {"else"})
                ELSE m1
      [] op = "end" ->
            LET frame == Top(m)
                reachable_anyway ==
                    CASE frame.kind = "loop" -> FALSE
                      [] frame.kind = "if" /\ frame.consequent_ends_reachable = "none" ->
                            frame.head_is_reachable
                      [] frame.kind = "if" ->
                            frame.head_is_reachable
                            /\ frame.consequent_ends_reachable = "true"
                      [] OTHER -> FALSE
                m1 == Pop(m)
            IN  IF frame.branched \/ reachable_anyway
                THEN Arrive([m1 EXCEPT !.reachable = TRUE], n, {"else", "end"})
                ELSE m1
      [] OTHER -> m

(* ------------------ funcref tables and call sites: data ---------------- *)
\* Pointer-sized words have PointerBits bits; the table has TableSize slots.
PointerBits == 3
TableSize == 2
MaxArgs == 2

FUNCREF_INIT_BIT == 1
FUNCREF_MASK == -2

Words == 0 .. (2 ^ PointerBits - 1)
Word(imm) == imm % (2 ^ PointerBits)

RECURSIVE BitsAnd(_, _, _)
BitsAnd(a, b, n) ==
    IF n = 0 THEN 0
    ELSE (a % 2) * (b % 2) + 2 * BitsAnd(a \div 2, b \div 2, n - 1)

RECURSIVE BitsOr(_, _, _)
BitsOr(a, b, n) ==
    IF n = 0 THEN 0
    ELSE (IF a % 2 = 1 \/ b % 2 = 1 THEN 1 ELSE 0)
         + 2 * BitsOr(a \div 2, b \div 2, n - 1)

band_imm(x, imm) == BitsAnd(x, Word(imm), PointerBits)
bor_imm(x, imm) == BitsOr(x, Word(imm), PointerBits)

Slots == 0 .. (TableSize - 1)
\* VMFuncRef structures live at the non-null even addresses.
FuncRefPtrs == {p \in Words : p # 0 /\ p % 2 = 0}
VMFuncRef(p) ==
    [wasm_call |-> 100 + p, vmctx |-> 200 + p, type_index |-> 10 + ((p \div 2) % 3)]

\* The module's types and the vmctx type-ids array: types 0 and 2 are the same
\* function type and share one VMSharedTypeIndex.
TypeIndexes == 0 .. 2
vmctx_type_ids == [ty \in TypeIndexes |-> 10 + (ty % 2)]

\* Function 0 is imported, function 1 is defined in the module.
FuncIndexes == 0 .. 1
is_imported_function(callee_index) == callee_index = 0
VMFunctionImport(callee_index) ==
    [wasm_call |-> 300 + callee_index, vmctx |-> 400 + callee_index]

\* The vmctx special parameter of the function being translated.
caller_vmctx == 500

\* The operands of a call: operand k is the value 10 * k.
CallArgs == {[k \in 1 .. n |-> 10 * k] : n \in 0 .. MaxArgs}

NoOutcome == [kind |-> "none", code |-> "-", target |-> 0, args |-> <<>>]
NoLast ==
    [op |-> "none", slot |-> 0, raw |-> 0, value |-> 0, ty_index |-> 0,
     callee_index |-> 0, call_args |-> <<>>, result |-> 0, trace |-> <<>>,
     outcome |-> NoOutcome]

CallIdle ==
    /\ table_elems = [i \in Slots |-> 0]
    /\ written = [i \in Slots |-> {}]
    /\ last = NoLast

(* ----------------------- externref tables: data ------------------------ *)
NumRefs == 2
ActivationsCapacity == 2
MaxInFlight == 1

ExternRefs == 1 .. NumRefs

\* Every object starts with one counted reference, held by the host.
ExternIdle ==
    /\ extern_elems = [i \in Slots |-> 0]
    /\ ref_count = [r \in ExternRefs |-> 1]
    /\ activations = <<>>
    /\ in_flight = <<>>
    /\ host_holds = [r \in ExternRefs |-> 1]
    /\ dropped = {}

(* ----------------------------- memories: data -------------------------- *)
MaxPages == 4
MaxDelta == 2

I32 == 32
I64 == 64
WASM_PAGE_SIZE == 65536

\* A value of an integer type is the little-endian sequence of its 16-bit
\* digits: the digits in base WASM_PAGE_SIZE, Digits(ty) of them.
Digits(ty) == ty \div 16
Value(n, ty) == [k \in 1 .. Digits(ty) |-> IF k = 1 THEN n ELSE 0]
MinusOne(ty) == [k \in 1 .. Digits(ty) |-> WASM_PAGE_SIZE - 1]

NoMemLast ==
    [op |-> "none", delta |-> <<>>, returned |-> <<>>, value |-> <<>>, cast |-> "none"]

MemIdle ==
    /\ pointer_type = I64
    /\ memory64 = FALSE
    /\ pages = 0
    /\ mem_last = NoMemLast

(* ------------------------- the vmctx global: data ---------------------- *)
MaxGlobalValues == 6

EnvIdle ==
    /\ enable_pcc = FALSE
    /\ self_vmctx = <<>>
    /\ global_values = <<>>
    /\ vmctx_memtypes = 0
    /\ handles = {}
    /\ pcc_vmctx_memtype = <<>>
    /\ memory_types = <<>>
    /\ global_value_facts = <<>>
    /\ heaps = <<>>

(* -------------------- the builtin-signature cache: data ---------------- *)
MaxSignatures == 5

\* Some of the builtins of foreach_builtin_function!.
Builtins == {"memory_copy", "memory_fill", "data_drop", "elem_drop"}

SigIdle ==
    /\ builtin_function_signatures = [b \in Builtins |-> <<>>]
    /\ signatures = <<>>
    /\ imports = [b \in Builtins |-> 0]
    /\ sig_refs = [b \in Builtins |-> {}]

(* ------------- externref barriers, block by block: data --------------- *)
NumThreads == 2
MaxRefCount == 3

Threads == 1 .. NumThreads

\* No barrier is being executed.  current_elem, elem, prev_ref_count, next and
\* end are the SSA values of the emitted code.
NoBarrier ==
    [op |-> "none", pc |-> "idle", index |-> 0, value |-> 0, elem |-> 0,
     current_elem |-> 0, prev_ref_count |-> 0, next |-> 0, end |-> 0,
     trace |-> <<>>, before |-> <<>>]

BarrierIdle ==
    /\ barrier = [t \in Threads |-> NoBarrier]
    /\ raced = FALSE

(* ----------------------- memory-checker hooks: data -------------------- *)
FuncNames == {"malloc", "free", "other", "none"}

MemcheckBuiltins ==
    {"malloc_start", "free_start", "check_malloc", "check_free", "check_load",
     "check_store", "update_stack_pointer", "update_mem_size"}

MemcheckIdle ==
    /\ wmemcheck_feature = FALSE
    /\ wmemcheck = FALSE
    /\ func_name = "none"
    /\ translating = FALSE
    /\ memcheck_sigs = {}
    /\ memcheck_calls = {}

MaxLoopFuel == 3

LoopIdle ==
    /\ in_loop = FALSE
    /\ fuel_at_loop = 0
    /\ iterations = 0
    /\ out_of_gas_calls = 0

RestIdle == SigIdle /\ BarrierIdle /\ MemcheckIdle /\ LoopIdle

(* ------------------------------ actions -------------------------------- *)
NoInput ==
    [refill |-> 0, new_deadline |-> 0, taken |-> FALSE, depth |-> 0, oob |-> FALSE,
     callee_fuel |-> 0]

Refills == IF tunables.consume_fuel THEN 0 .. MaxInitFuel ELSE {0}
CalleeFuel == IF tunables.consume_fuel THEN 0 .. 1 ELSE {0}

Write(m, ph, op) ==
    /\ phase' = ph
    /\ fuel_consumed' = m.fuel_consumed
    /\ reachable' = m.reachable
    /\ control_stack' = m.control_stack
    /\ path' = m.path
    /\ fuel_var' = m.fuel_var
    /\ rt_fuel' = m.rt_fuel
    /\ entry_fuel' = IF m.path.mode \in {"run", "wait"} THEN entry_fuel ELSE 0
    /\ charged' = m.charged
    /\ cost' = m.cost
    /\ rt_deadline' = m.rt_deadline
    /\ epoch_deadline_var' = m.epoch_deadline_var
    /\ events' = m.events
    /\ checks' = m.checks
    /\ last_site' = IF path.mode = "run" /\ reachable /\ op \in {"entry", "loop"}
                     THEN op ELSE "none"
    /\ UNCHANGED <<tunables, debug_assertions, epoch>>

Commit(m, ph, op) ==
    /\ Write(m, ph, op)
    /\ UNCHANGED <<callVars, externVars, memVars, envVars, restVars>>

\* The decoder reads one operator: before_operator, its translation, after_operator.
Step(op, in) ==
    /\ phase = "body"
    /\ StaticCost(op) = 0 \/ (cost < MaxCost /\ fuel_consumed < MaxPending)
    /\ LET m0 == [Machine EXCEPT !.cost = IF path.mode = "run" THEN @ + StaticCost(op) ELSE @]
           m1 == before_translate_operator(m0, op)
       IN  IF m1.panicked
           THEN Commit(m1, "panicked", op)
           ELSE LET m2 == IF m1.reachable
                          THEN translate_operator(m1, op, in)
                          ELSE translate_unreachable_operator(m1, op)
                    m3 == after_translate_operator(m2, op)
                IN  Commit(m3, IF m3.control_stack = <<>> THEN "tail" ELSE "body", op)

BeforeTranslateFunction ==
    /\ phase = "new"
    /\ \E refill \in Refills :
          Commit(before_translate_function(
                     Machine, [NoInput EXCEPT !.refill = refill,
                                              !.new_deadline = epoch + 1]),
                 "body", "entry")

TranslatePlain == \E op \in PlainOps : Step(op, NoInput)

TranslateMemoryAccess ==
    \E oob \in BOOLEAN : Step("i32.load", [NoInput EXCEPT !.oob = oob])

CanNest == Len(control_stack) <= MaxDepth

TranslateBlock == CanNest /\ Step("block", NoInput)

TranslateLoop ==
    /\ CanNest
    /\ \E refill \in Refills :
          Step("loop", [NoInput EXCEPT !.refill = refill, !.new_deadline = epoch + 1])

TranslateIf == CanNest /\ \E taken \in BOOLEAN : Step("if", [NoInput EXCEPT !.taken = taken])

TranslateElse ==
    /\ control_stack # <<>>
    /\ control_stack[Len(control_stack)].kind = "if"
    /\ control_stack[Len(control_stack)].consequent_ends_reachable = "none"
    /\ Step("else", NoInput)

TranslateEnd == Step("end", NoInput)

Depths == 0 .. (Len(control_stack) - 1)

TranslateBr == \E d \in Depths : Step("br", [NoInput EXCEPT !.depth = d])

TranslateBrIf ==
    \E d \in Depths, taken \in BOOLEAN :
        Step("br_if", [NoInput EXCEPT !.depth = d, !.taken = taken])

TranslateBrTable ==
    \E d \in Depths, taken \in BOOLEAN :
        Step("br_table", [NoInput EXCEPT !.depth = d, !.taken = taken])

TranslateReturn == Step("return", NoInput)

TranslateUnreachable == Step("unreachable", NoInput)

TranslateCall ==
    \E op \in CallOps, k \in CalleeFuel : Step(op, [NoInput EXCEPT !.callee_fuel = k])

TranslateReturnCall == \E op \in ReturnCallOps : Step(op, NoInput)

TranslateBuiltinCall ==
    \E op \in BuiltinOps, taken \in BOOLEAN : Step(op, [NoInput EXCEPT !.taken = taken])

\* The end of the body: after_function, then the decoder's final return.
AfterTranslateFunction ==
    /\ phase = "tail"
    /\ LET m1 == after_translate_function(Machine)
           m2 == IF m1.reachable THEN Leave(m1, "return") ELSE m1
       IN  Commit(m2, "done", "exit")

\* Another thread advances the engine's epoch counter.
EpochTick ==
    /\ phase \in {"new", "body", "tail"}
    /\ tunables.epoch_interruption
    /\ epoch < MaxEpoch
    /\ epoch' = epoch + 1
    /\ UNCHANGED <<tunables, debug_assertions, phase, fuel_consumed, reachable,
                   control_stack, path, fuel_var, rt_fuel, entry_fuel, charged, cost,
                   rt_deadline, epoch_deadline_var, last_site, events, checks>>
    /\ UNCHANGED <<callVars, externVars, memVars, envVars, restVars>>

\* The scheduler moves the store's deadline forward.
AdvanceDeadline ==
    /\ phase \in {"new", "body", "tail"}
    /\ tunables.epoch_interruption
    /\ rt_deadline <= MaxEpoch
    /\ rt_deadline' = rt_deadline + 1
    /\ UNCHANGED <<tunables, debug_assertions, phase, fuel_consumed, reachable,
                   control_stack, path, fuel_var, rt_fuel, entry_fuel, charged, cost,
                   epoch, epoch_deadline_var, last_site, events, checks>>
    /\ UNCHANGED <<callVars, externVars, memVars, envVars, restVars>>

\* The state of the translator and of the path before the function is translated.
FuelStart(max_fuel) ==
    /\ tunables \in [consume_fuel : BOOLEAN, epoch_interruption : BOOLEAN]
    /\ debug_assertions \in (IF tunables.consume_fuel THEN BOOLEAN ELSE {FALSE})
    /\ phase = "new"
    /\ fuel_consumed = BaseFuel
    /\ reachable = TRUE
    /\ control_stack = <<Frame("func", TRUE)>>
    /\ path = Running
    /\ fuel_var = 0
    /\ rt_fuel \in (IF tunables.consume_fuel THEN (0 - max_fuel) .. 0 ELSE {0})
    /\ entry_fuel = rt_fuel
    /\ charged = 0
    /\ cost = 0
    /\ epoch = 0
    /\ rt_deadline = 1
    /\ epoch_deadline_var = 0
    /\ last_site = "none"
    /\ events = <<>>
    /\ checks = <<>>

FuelInit == FuelStart(MaxInitFuel)

Init == FuelInit /\ CallIdle /\ ExternIdle /\ MemIdle /\ EnvIdle /\ RestIdle

Next ==
    \/ BeforeTranslateFunction
    \/ TranslatePlain
    \/ TranslateMemoryAccess
    \/ TranslateBlock
    \/ TranslateLoop
    \/ TranslateIf
    \/ TranslateElse
    \/ TranslateEnd
    \/ TranslateBr
    \/ TranslateBrIf
    \/ TranslateBrTable
    \/ TranslateReturn
    \/ TranslateUnreachable
    \/ TranslateCall
    \/ TranslateReturnCall
    \/ TranslateBuiltinCall
    \/ AfterTranslateFunction
    \/ EpochTick
    \/ AdvanceDeadline

Spec == Init /\ [][Next]_vars

(* ------------------------ fuel and epoch properties -------------------- *)
\* The operators and traps before which the pending fuel is to be folded and
\* the fuel variable stored.
FlushKinds == {"return", "unreachable", "trap_oob"} \cup CallOps \cup ReturnCallOps

\* The points at which the generated code may be suspended.
SuspensionKinds == {"out_of_gas", "new_epoch"} \cup CallOps

EventsOf(kinds) == {i \in 1 .. Len(events) : events[i].kind \in kinds}

\* C1: with fuel metering on, when the path executes a return, unreachable,
\* call, call_indirect, call_ref, return_call, return_call_indirect,
\* return_call_ref or an unconditionally trapping memory access, no fuel is
\* pending in fuel_consumed and VMRuntimeLimits holds the value of the fuel
\* variable.
C1_FuelFlushedBeforeLeaving ==
    tunables.consume_fuel =>
        \A i \in EventsOf(FlushKinds) :
            events[i].pending = 0 /\ events[i].rt_fuel = events[i].fuel_var

\* C2: with fuel metering on, a path that has gone from function entry to a
\* function exit has had its fuel variable incremented by exactly the static
\* cost of the operators it executed plus the base charge.
C2_FuelConserved ==
    (tunables.consume_fuel /\ path.mode = "exit") => charged = cost + BaseFuel

\* C3: with fuel metering on, at every call of out_of_gas, every call of
\* new_epoch and every Wasm call the path executes, VMRuntimeLimits holds the
\* fuel variable with the pending fuel folded in.
C3_FuelConsistentAtSuspension ==
    tunables.consume_fuel =>
        \A i \in EventsOf(SuspensionKinds) :
            events[i].rt_fuel = events[i].fuel_var + events[i].pending

\* C7: with epoch interruption on, the path executes one epoch check when it
\* enters the function and one when it passes a loop header, and a check made
\* when the epoch counter has reached the store's deadline calls new_epoch
\* exactly once, a check made before that calls it not at all.
C7_EpochProgress ==
    /\ (tunables.epoch_interruption /\ last_site \in {"entry", "loop"}) =>
           Len(checks) = 1
    /\ \A i \in 1 .. Len(checks) :
           /\ tunables.epoch_interruption
           /\ checks[i].calls = (IF checks[i].epoch >= checks[i].deadline THEN 1 ELSE 0)
           /\ Cardinality(EventsOf({"new_epoch"})) = checks[i].calls

\* C7 witness: the epoch counter reached the deadline after function entry and
\* the check at a loop header called new_epoch.
C7_LoopHeaderCallsNewEpoch ==
    /\ last_site = "loop"
    /\ Len(checks) = 1
    /\ checks[1].epoch >= checks[1].deadline
    /\ checks[1].epoch > 0
    /\ checks[1].calls = 1

\* C13 as claimed: a function entered with fuel -1 passes its entry check
\* without out_of_gas, its first operator `call` raises the fuel variable to 0
\* and stores 0 before the call, and a function entered with fuel 0 (the
\* callee) sees 0 >= 0 at its entry check and calls out_of_gas.
C13_EntryCheckPassesAtMinusOne ==
    tunables.consume_fuel =>
        /\ (last_site = "entry" /\ entry_fuel = -1) => EventsOf({"out_of_gas"}) = {}
        /\ (path.mode = "run" /\ entry_fuel = -1 /\ cost = 1) =>
               \A i \in EventsOf({"call"}) :
                   events[i].fuel_var = 0 /\ events[i].rt_fuel = 0
        /\ (last_site = "entry" /\ entry_fuel = 0) =>
               \E i \in EventsOf({"out_of_gas"}) : events[i].fuel_var = 0

\* C13 amended: the entry check of a function entered with fuel f adds the
\* function's entry charge and calls out_of_gas exactly when f + 1 >= 0, with
\* f + 1 stored; so a function entered with -2 passes its entry check, its
\* first operator `call` raises the fuel variable to 0 and stores 0 before the
\* call, and the callee, entered with 0, sees 1 >= 0 and calls out_of_gas.
C13_FuelExhaustionAtCall ==
    tunables.consume_fuel =>
        /\ last_site = "entry" =>
               /\ EventsOf({"out_of_gas"}) # {} <=> entry_fuel + BaseFuel >= 0
               /\ \A i \in EventsOf({"out_of_gas"}) :
                      /\ events[i].fuel_var = entry_fuel + BaseFuel
                      /\ events[i].rt_fuel = events[i].fuel_var
        /\ (path.mode = "run" /\ entry_fuel + BaseFuel < 0 /\ cost = 1) =>
               \A i \in EventsOf({"call"}) :
                   /\ events[i].fuel_var = entry_fuel + BaseFuel + 1
                   /\ events[i].rt_fuel = events[i].fuel_var
                   /\ events[i].pending = 0

\* C13 witness: a function entered with fuel -2 executes `call` as its first
\* operator with 0 in the fuel variable and in VMRuntimeLimits.
C13_CallWithNoFuelLeft ==
    /\ tunables.consume_fuel /\ entry_fuel = -2 /\ cost = 1 /\ path.mode = "run"
    /\ \E i \in EventsOf({"call"}) : events[i].rt_fuel = 0 /\ events[i].fuel_var = 0

\* C18: with fuel metering, when the path has returned from a call, a
\* call_indirect or a call_ref, the cached fuel variable holds the value of
\* VMRuntimeLimits before the next operator is translated.
C18_FuelReloadedAfterCall ==
    (tunables.consume_fuel /\ path.mode = "run" /\ EventsOf(CallOps) # {}) =>
        fuel_var = rt_fuel

BuiltinKinds == {"out_of_gas", "drop_externref", "memory_grow"}

C26_EpochDoubleCheck ==
    \A i \in 1 .. Len(checks) :
        LET c == checks[i]
            miss == c.epoch >= c.cached
            exceeded == c.epoch >= c.deadline
        IN  /\ c.calls = (IF miss /\ exceeded THEN 1 ELSE 0)
            /\ Cardinality(EventsOf({"new_epoch"})) = c.calls
            /\ ~miss => c.after = c.cached
            /\ (miss /\ ~exceeded) => c.after = c.deadline
            /\ (miss /\ exceeded) => c.after = c.returned

\* C26 witness: a check at a loop header missed the cached deadline, found
\* the re-read deadline not reached, and did not call new_epoch.
C26_RereadDeadlineNotReached ==
    /\ last_site = "loop"
    /\ Len(checks) = 1
    /\ checks[1].epoch >= checks[1].cached
    /\ checks[1].epoch < checks[1].deadline
    /\ checks[1].calls = 0
    /\ epoch_deadline_var = checks[1].deadline

\* C28: with fuel metering on, whenever the translator is in unreachable code
\* no fuel is pending in fuel_consumed, so the debug assertion of fuel_before_op
\* never fails: every operator that ended the reachable code folded the
\* pending fuel into the fuel variable.
C28_NoPendingFuelInUnreachableCode ==
    tunables.consume_fuel =>
        /\ phase # "panicked"
        /\ (phase = "body" /\ ~reachable) => fuel_consumed = 0

(* --------------- funcref tables and call sites: lowering --------------- *)
\* The state of one execution of the code a translate_* method emits: the
\* table, the instructions executed so far, the value produced and how the
\* execution ended.
Exec(elems) == [table_elems |-> elems, trace |-> <<>>, result |-> 0, outcome |-> NoOutcome]

Ins(x, name) == [x EXCEPT !.trace = Append(@, name)]

Trap(x, code) == [x EXCEPT !.outcome = [NoOutcome EXCEPT !.kind = "trap", !.code = code]]

\* The table_get_lazy_init_func_ref builtin: it materialises the slot's funcref
\* (init, null or a VMFuncRef), marks the slot initialised and returns it.
table_get_lazy_init_func_ref(x, index, init) ==
    [Ins(x, "call table_get_lazy_init_func_ref")
        EXCEPT !.table_elems[index] = bor_imm(init, FUNCREF_INIT_BIT), !.result = init]

\* A table read that hands out the raw word.
get_or_init_func_ref_table_elem_raw(x, index, init) ==
    LET x1 == Ins(x, "load table_entry")
        value == x1.table_elems[index]
    IN  IF value # 0
        THEN [x1 EXCEPT !.result = value]
        ELSE table_get_lazy_init_func_ref(x1, index, init)

\* A table read that branches on the masked value instead of the raw one.
get_or_init_func_ref_table_elem_branch_on_masked(x, index, init) ==
    LET x1 == Ins(Ins(x, "load table_entry"), "band_imm")
        value == x1.table_elems[index]
        value_masked == band_imm(value, FUNCREF_MASK)
    IN  IF value_masked # 0
        THEN [x1 EXCEPT !.result = value_masked]
        ELSE table_get_lazy_init_func_ref(x1, index, init)

get_or_init_func_ref_table_elem(x, index, init) ==
    LET x1 == Ins(Ins(x, "load table_entry"), "band_imm")
        value == x1.table_elems[index]
        value_masked == band_imm(value, FUNCREF_MASK)
    IN  IF value # 0
        THEN [x1 EXCEPT !.result = value_masked]
        ELSE table_get_lazy_init_func_ref(x1, index, init)

\* A table.get that always takes the cold path.
translate_table_get_always_cold(x, index, init) ==
    table_get_lazy_init_func_ref(Ins(Ins(x, "load table_entry"), "band_imm"), index, init)

\* translate_table_get and translate_table_set for a funcref table.
translate_table_get(x, index, init) == get_or_init_func_ref_table_elem(x, index, init)

translate_table_set(x, value, index) ==
    LET value_with_init_bit == bor_imm(value, FUNCREF_INIT_BIT)
    IN  [Ins(x, "store table_entry") EXCEPT !.table_elems[index] = value_with_init_bit]

direct_call_inst(x, tail, callee, args) ==
    [Ins(x, "call") EXCEPT !.outcome =
        [kind |-> IF tail THEN "return_call" ELSE "call", code |-> "-",
         target |-> callee, args |-> args]]

\* An indirect call instruction that is never a tail call.
indirect_call_inst_never_tail(x, tail, func_addr, args) ==
    [Ins(x, "call") EXCEPT !.outcome =
        [kind |-> "call_indirect", code |-> "-", target |-> func_addr, args |-> args]]

indirect_call_inst(x, tail, func_addr, args) ==
    [Ins(x, "call") EXCEPT !.outcome =
        [kind |-> IF tail THEN "return_call_indirect" ELSE "call_indirect", code |-> "-",
         target |-> func_addr, args |-> args]]

direct_call(x, tail, callee_index, call_args) ==
    IF ~is_imported_function(callee_index)
    THEN direct_call_inst(x, tail, callee_index, <<caller_vmctx, caller_vmctx>> \o call_args)
    ELSE LET x1 == Ins(x, "load import wasm_call")
             func_addr == VMFunctionImport(callee_index).wasm_call
             x2 == Ins(x1, "load import vmctx")
             callee_vmctx == VMFunctionImport(callee_index).vmctx
         IN  indirect_call_inst(x2, tail, func_addr, <<callee_vmctx, caller_vmctx>> \o call_args)

\* An unchecked call that hands the caller's vmctx over first.
unchecked_call_swapped(x, tail, callee, call_args) ==
    LET x1 == Ins(x, "load wasm_call")
        func_addr == VMFuncRef(callee).wasm_call
        x2 == Ins(x1, "load vmctx")
        callee_vmctx == VMFuncRef(callee).vmctx
    IN  indirect_call_inst(x2, tail, func_addr, <<caller_vmctx, callee_vmctx>> \o call_args)

unchecked_call(x, tail, callee, call_args) ==
    LET x1 == Ins(x, "load wasm_call")
        func_addr == VMFuncRef(callee).wasm_call
        x2 == Ins(x1, "load vmctx")
        callee_vmctx == VMFuncRef(callee).vmctx
    IN  indirect_call_inst(x2, tail, func_addr, <<callee_vmctx, caller_vmctx>> \o call_args)

\* An indirect call that checks for null only.
indirect_call_unchecked(x, tail, ty_index, callee, call_args, init) ==
    LET x1 == get_or_init_func_ref_table_elem(x, callee, init)
        funcref_ptr == x1.result
    IN  IF funcref_ptr = 0
        THEN Trap(Ins(x1, "trapz"), "IndirectCallToNull")
        ELSE unchecked_call(Ins(x1, "trapz"), tail, funcref_ptr, call_args)

indirect_call(x, tail, ty_index, callee, call_args, init) ==
    LET x1 == get_or_init_func_ref_table_elem(x, callee, init)
        funcref_ptr == x1.result
    IN  IF funcref_ptr = 0
        THEN Trap(Ins(x1, "trapz"), "IndirectCallToNull")
        ELSE LET x2 == Ins(Ins(Ins(x1, "trapz"), "load type_ids"), "load caller_sig_id")
                 caller_sig_id == vmctx_type_ids[ty_index]
                 x3 == Ins(x2, "load callee_sig_id")
                 callee_sig_id == VMFuncRef(funcref_ptr).type_index
                 cmp == callee_sig_id = caller_sig_id
             IN  IF ~cmp
                 THEN Trap(Ins(x3, "trapz"), "BadSignature")
                 ELSE unchecked_call(Ins(x3, "trapz"), tail, funcref_ptr, call_args)

\* A call through a typed reference without the null check.
call_ref_without_null_check(x, tail, callee, args) ==
    unchecked_call(x, tail, callee, args)

call_ref(x, tail, callee, args) ==
    IF callee = 0
    THEN Trap(Ins(x, "trapz"), "NullReference")
    ELSE unchecked_call(Ins(x, "trapz"), tail, callee, args)

is_wasm_parameter(index) == index >= 2

(* ---------------- funcref tables and call sites: actions --------------- *)
Done(x, rec) ==
    /\ table_elems' = x.table_elems
    /\ last' = [rec EXCEPT !.raw = table_elems[rec.slot], !.result = x.result,
                           !.trace = x.trace, !.outcome = x.outcome]
    /\ UNCHANGED <<fuelVars, externVars, memVars, envVars, restVars>>

\* What table_get_lazy_init_func_ref may find for a slot that is still zero.
LazyInits(index) == IF table_elems[index] = 0 THEN {0} \cup FuncRefPtrs ELSE {0}

TranslateTableGet ==
    \E index \in Slots :
      \E init \in LazyInits(index) :
        /\ Done(translate_table_get(Exec(table_elems), index, init),
                [NoLast EXCEPT !.op = "table.get", !.slot = index])
        /\ UNCHANGED written

TranslateTableSet ==
    \E index \in Slots, value \in Words :
        /\ Done(translate_table_set(Exec(table_elems), value, index),
                [NoLast EXCEPT !.op = "table.set", !.slot = index, !.value = value])
        /\ written' = [written EXCEPT ![index] = {value}]

TranslateCallDirect ==
    \E tail \in BOOLEAN, callee_index \in FuncIndexes, call_args \in CallArgs :
        /\ Done(direct_call(Exec(table_elems), tail, callee_index, call_args),
                [NoLast EXCEPT !.op = IF tail THEN "return_call" ELSE "call",
                               !.callee_index = callee_index, !.call_args = call_args])
        /\ UNCHANGED written

TranslateCallIndirect ==
    \E tail \in BOOLEAN, ty_index \in TypeIndexes, callee \in Slots, call_args \in CallArgs :
      \E init \in LazyInits(callee) :
        /\ Done(indirect_call(Exec(table_elems), tail, ty_index, callee, call_args, init),
                [NoLast EXCEPT !.op = IF tail THEN "return_call_indirect"
                                      ELSE "call_indirect",
                               !.slot = callee, !.ty_index = ty_index,
                               !.call_args = call_args])
        /\ UNCHANGED written

TranslateCallRef ==
    \E tail \in BOOLEAN, callee \in {0} \cup FuncRefPtrs, call_args \in CallArgs :
        /\ Done(call_ref(Exec(table_elems), tail, callee, call_args),
                [NoLast EXCEPT !.op = IF tail THEN "return_call_ref" ELSE "call_ref",
                               !.value = callee, !.call_args = call_args])
        /\ UNCHANGED written

FuelIdle ==
    /\ tunables = [consume_fuel |-> FALSE, epoch_interruption |-> FALSE]
    /\ debug_assertions = FALSE
    /\ phase = "done"
    /\ fuel_consumed = BaseFuel
    /\ reachable = TRUE
    /\ control_stack = <<>>
    /\ path = Left("gone")
    /\ fuel_var = 0
    /\ rt_fuel = 0
    /\ entry_fuel = 0
    /\ charged = 0
    /\ cost = 0
    /\ epoch = 0
    /\ rt_deadline = 1
    /\ epoch_deadline_var = 0
    /\ last_site = "none"
    /\ events = <<>>
    /\ checks = <<>>

InitCall == FuelIdle /\ CallIdle /\ ExternIdle /\ MemIdle /\ EnvIdle /\ RestIdle

NextCall ==
    \/ TranslateTableGet
    \/ TranslateTableSet
    \/ TranslateCallDirect
    \/ TranslateCallIndirect
    \/ TranslateCallRef

SpecCall == InitCall /\ [][NextCall]_vars

(* ------------------- funcref table and call properties ----------------- *)
\* The funcref pointer a slot's raw word stands for.
SlotFuncRef(index) == band_imm(table_elems[index], FUNCREF_MASK)

IndirectOps == {"call_indirect", "return_call_indirect"}

\* C5: a table.get of a funcref slot whose last write was table.set of v
\* returns v with bit 0 cleared, for every pointer-sized v, null included.
C5_InitBitRoundTrip ==
    (last.op = "table.get" /\ written[last.slot] # {}) =>
        \A v \in written[last.slot] : last.result = v - (v % 2)

\* C5 witness: a table.get after a table.set of null, and one after a table.set
\* of a non-null pointer, to the same slot.
C5_GetAfterSet ==
    /\ last.op = "table.get"
    /\ written[last.slot] # {}
    /\ written[1 - last.slot] = {0}
    /\ \E v \in written[last.slot] : v > 1 /\ last.result = v

\* C6: a call_indirect or return_call_indirect through a slot that holds a
\* funcref whose type index differs from the shared type id of the call's
\* TypeIndex traps with BadSignature, and neither loads the callee's wasm_call
\* nor calls anything.
C6_SignatureSafety ==
    (/\ last.op \in IndirectOps
     /\ SlotFuncRef(last.slot) # 0
     /\ vmctx_type_ids[last.ty_index] # VMFuncRef(SlotFuncRef(last.slot)).type_index)
    => /\ last.outcome.kind = "trap"
       /\ last.outcome.code = "BadSignature"
       /\ \A i \in 1 .. Len(last.trace) : last.trace[i] \notin {"load wasm_call", "call"}

\* C6 witness: a tail call through a slot whose funcref has another type.
C6_MismatchTraps ==
    /\ last.op = "return_call_indirect"
    /\ SlotFuncRef(last.slot) # 0
    /\ vmctx_type_ids[last.ty_index] # VMFuncRef(SlotFuncRef(last.slot)).type_index
    /\ last.outcome.code = "BadSignature"

\* The vmctx the callee of the last call is to receive.
CalleeVmctx ==
    CASE last.op \in {"call", "return_call"} ->
            IF is_imported_function(last.callee_index)
            THEN VMFunctionImport(last.callee_index).vmctx
            ELSE caller_vmctx
      [] last.op \in IndirectOps -> VMFuncRef(SlotFuncRef(last.slot)).vmctx
      [] OTHER -> VMFuncRef(last.value).vmctx

CallOpNames ==
    {"call", "return_call", "call_ref", "return_call_ref"} \cup IndirectOps

\* C9: every call instruction emitted for a call, call_indirect, call_ref or
\* their tail variants passes the callee's vmctx, then the caller's vmctx, then
\* the operands in order: the wasm parameters are the ones at index >= 2.
C9_CallAbi ==
    (last.op \in CallOpNames /\ last.outcome.kind # "trap") =>
        LET args == last.outcome.args IN
        /\ Len(args) = Len(last.call_args) + 2
        /\ args[1] = CalleeVmctx
        /\ args[2] = caller_vmctx
        /\ \A index \in 0 .. (Len(args) - 1) :
              /\ is_wasm_parameter(index) <=> index >= 2
              /\ is_wasm_parameter(index) => args[index + 1] = last.call_args[index - 1]
              /\ ~is_wasm_parameter(index) => args[index + 1] \in {CalleeVmctx, caller_vmctx}

\* C9 witness: a call through a funcref with two operands.
C9_FuncRefCallWithArgs ==
    /\ last.op \in {"call_indirect", "return_call_ref"}
    /\ last.outcome.kind # "trap"
    /\ Len(last.call_args) = 2
    /\ last.outcome.args[1] # caller_vmctx

BuiltinName == "call table_get_lazy_init_func_ref"

TraceHas(names) == \E i \in 1 .. Len(last.trace) : last.trace[i] \in names

\* C14 as claimed: a table.get of a slot whose raw value is 0x1 takes the cold
\* path and returns what the builtin returns; a table.get of a slot holding
\* P|1 returns P with one load and one mask and no builtin call.
C14_LazyMarkerIsOne ==
    last.op = "table.get" =>
        /\ last.raw = 1 => TraceHas({BuiltinName})
        /\ (last.raw > 1 /\ last.raw % 2 = 1) =>
               /\ last.result = last.raw - 1
               /\ last.trace = <<"load table_entry", "band_imm">>

\* C14 amended: a table.get of a slot whose raw value is 0 takes the cold path,
\* calls the builtin and returns the pointer P the builtin returns, the slot
\* then holding P|1; a table.get of a slot holding P|1 (the null P, raw 0x1,
\* included) returns P with one load and one mask and no builtin call.
C14_LazyInitScenario ==
    last.op = "table.get" =>
        /\ last.raw = 0 =>
               /\ last.trace = <<"load table_entry", "band_imm", BuiltinName>>
               /\ table_elems[last.slot] = bor_imm(last.result, FUNCREF_INIT_BIT)
        /\ last.raw % 2 = 1 =>
               /\ last.result = last.raw - 1
               /\ last.trace = <<"load table_entry", "band_imm">>
               /\ table_elems[last.slot] = last.raw

\* C14 witness: the second table.get of a slot the first one initialised to a
\* non-null funcref.
C14_GetOfInitialisedSlot ==
    /\ last.op = "table.get"
    /\ written[last.slot] = {}
    /\ last.raw > 1
    /\ last.result = last.raw - 1

\* The table before the last operation.
TableBefore == [table_elems EXCEPT ![last.slot] = last.raw]

\* What the non-tail variant of the last operation emits for the same operands.
NonTail ==
    CASE last.op = "return_call" ->
            direct_call(Exec(TableBefore), FALSE, last.callee_index, last.call_args)
      [] last.op = "return_call_indirect" ->
            indirect_call(Exec(TableBefore), FALSE, last.ty_index, last.slot,
                          last.call_args, SlotFuncRef(last.slot))
      [] OTHER -> call_ref(Exec(TableBefore), FALSE, last.value, last.call_args)

\* C15: a return_call, return_call_indirect or return_call_ref emits the
\* checks, loads, target and arguments of the call, call_indirect or call_ref
\* of the same operands, traps where it traps, and differs only in the final
\* opcode (return_call for call, return_call_indirect for call_indirect); a
\* return_call of an imported function is a return_call_indirect through the
\* import's wasm_call with arguments (import vmctx, caller vmctx, operands).
C15_TailCallEquivalence ==
    last.op \in ReturnCallOps =>
        /\ last.trace = NonTail.trace
        /\ table_elems = NonTail.table_elems
        /\ last.outcome.code = NonTail.outcome.code
        /\ last.outcome.target = NonTail.outcome.target
        /\ last.outcome.args = NonTail.outcome.args
        /\ last.outcome.kind =
              (CASE NonTail.outcome.kind = "call" -> "return_call"
                 [] NonTail.outcome.kind = "call_indirect" -> "return_call_indirect"
                 [] OTHER -> NonTail.outcome.kind)
        /\ (last.op = "return_call" /\ is_imported_function(last.callee_index)) =>
              /\ last.outcome.kind = "return_call_indirect"
              /\ last.outcome.target = VMFunctionImport(last.callee_index).wasm_call
              /\ last.outcome.args =
                    <<VMFunctionImport(last.callee_index).vmctx, caller_vmctx>>
                       \o last.call_args

\* C15 witness: a return_call_indirect that passes the signature check of a
\* slot it initialised, with operands.
C15_TailCallThroughLazySlot ==
    /\ last.op = "return_call_indirect"
    /\ last.raw = 0
    /\ last.outcome.kind = "return_call_indirect"
    /\ Len(last.call_args) = MaxArgs

SignatureCheck == {"load type_ids", "load caller_sig_id", "load callee_sig_id"}

\* C17: a call_indirect or return_call_indirect through a null element traps
\* with IndirectCallToNull before any part of the signature check; a call_ref
\* or return_call_ref traps with NullReference on null and checks no signature
\* on a non-null reference; no trapping case makes the call.
C17_NullCalleeTraps ==
    /\ (last.op \in IndirectOps /\ SlotFuncRef(last.slot) = 0) =>
          /\ last.outcome.kind = "trap" /\ last.outcome.code = "IndirectCallToNull"
          /\ ~TraceHas(SignatureCheck)
    /\ (last.op \in {"call_ref", "return_call_ref"}) =>
          /\ ~TraceHas(SignatureCheck)
          /\ IF last.value = 0
             THEN last.outcome.kind = "trap" /\ last.outcome.code = "NullReference"
             ELSE last.outcome.kind \in {"call_indirect", "return_call_indirect"}
    /\ last.outcome.kind = "trap" =>
          ~TraceHas({"call", "load wasm_call", "load vmctx"})

\* C17 witness: a tail call through a slot the builtin initialised to null.
C17_TailCallToLazyNull ==
    /\ last.op = "return_call_indirect"
    /\ last.raw = 0
    /\ TraceHas({BuiltinName})
    /\ last.outcome.code = "IndirectCallToNull"

(* ----------- funcref table slots as inputs of the emitted code --------- *)
\* The raw words of the table are written by the runtime as well as by
\* table.set: here every pointer-sized word is a possible slot value.
InitSlot ==
    /\ FuelIdle /\ ExternIdle /\ MemIdle /\ EnvIdle /\ RestIdle
    /\ table_elems \in [Slots -> Words]
    /\ written = [index \in Slots |-> {}]
    /\ last = NoLast

NextSlot ==
    \/ TranslateTableGet
    \/ TranslateCallIndirect

SpecSlot == InitSlot /\ [][NextSlot]_vars

LookupOps == {"table.get"} \cup IndirectOps

Heap ==
    [extern_elems |-> extern_elems, ref_count |-> ref_count,
     activations |-> activations, dropped |-> dropped]

\* A reference-count access that only reads the count.
mutate_externref_ref_count_read_only(g, externref, delta) == g

\* The atomic add; its result, the previous count, is g.ref_count[externref].
mutate_externref_ref_count(g, externref, delta) ==
    [g EXCEPT !.ref_count[externref] = @ + delta]

\* The drop_externref builtin deallocates the object.
drop_externref(g, externref) == [g EXCEPT !.dropped = @ \cup {externref}]

Removed(g, keep, r) ==
    Cardinality({i \in 1 .. Len(g.activations) : i \notin keep /\ g.activations[i] = r})

RECURSIVE Kept(_, _, _)
Kept(acts, keep, i) ==
    IF i > Len(acts) THEN <<>>
    ELSE (IF i \in keep THEN <<acts[i]>> ELSE <<>>) \o Kept(acts, keep, i + 1)

\* The activations_table_insert_with_gc builtin: a collection keeps the entries
\* at the indexes in keep and releases the others, then elem is inserted.
activations_table_insert_with_gc(g, elem, keep) ==
    LET swept == [r \in ExternRefs |-> g.ref_count[r] - Removed(g, keep, r)]
    IN  [g EXCEPT !.ref_count = [swept EXCEPT ![elem] = @ + 1],
                  !.activations = Append(Kept(g.activations, keep, 1), elem),
                  !.dropped = @ \cup {r \in ExternRefs : swept[r] = 0 /\ r # elem}]

\* translate_table_get for an externref table: the read barrier.
translate_table_get_externref(g, index, keep) ==
    LET elem == g.extern_elems[index]
        at_capacity == Len(g.activations) = ActivationsCapacity
    IN  IF elem = 0 THEN g
        ELSE IF at_capacity
        THEN activations_table_insert_with_gc(g, elem, keep)
        ELSE [mutate_externref_ref_count(g, elem, 1)
                EXCEPT !.activations = Append(@, elem)]

\* translate_table_set for an externref table: the write barrier.
translate_table_set_externref(g, value, index) ==
    LET g1 == IF value = 0 THEN g ELSE mutate_externref_ref_count(g, value, 1)
        current_elem == g1.extern_elems[index]
        g2 == [g1 EXCEPT !.extern_elems[index] = value]
    IN  IF current_elem = 0 THEN g2
        ELSE LET prev_ref_count == g2.ref_count[current_elem]
                 g3 == mutate_externref_ref_count(g2, current_elem, -1)
             IN  IF prev_ref_count = 1 THEN drop_externref(g3, current_elem) ELSE g3

(* ---------------------- externref tables: actions ---------------------- *)
Store(g) ==
    /\ extern_elems' = g.extern_elems
    /\ ref_count' = g.ref_count
    /\ activations' = g.activations
    /\ dropped' = g.dropped
    /\ UNCHANGED <<fuelVars, callVars, memVars, envVars, restVars>>

InActivations(r) == \E i \in 1 .. Len(activations) : activations[i] = r

\* The references the running code can have on its operand stack: null, the
\* ones the host handed in and still holds, and the ones read from a table.
StackValues == {0} \cup {r \in ExternRefs : host_holds[r] = 1 \/ InActivations(r)}

\* The entries a collection may keep: those still on the stack, and fewer than
\* the region has room for.
Keeps ==
    {keep \in SUBSET (1 .. Len(activations)) : Cardinality(keep) < ActivationsCapacity}

TranslateTableGetExternref ==
    \E index \in Slots, keep \in Keeps :
        /\ Store(translate_table_get_externref(Heap, index, keep))
        /\ UNCHANGED <<in_flight, host_holds>>

TranslateTableSetExternref ==
    \E index \in Slots, value \in StackValues :
        /\ Store(translate_table_set_externref(Heap, value, index))
        /\ UNCHANGED <<in_flight, host_holds>>

\* A call that passes an externref operand: direct_call, indirect_call and
\* call_ref copy the operands into the argument list and emit nothing else.
CallWithExternref ==
    \E value \in StackValues \ {0} :
        /\ Len(in_flight) < MaxInFlight
        /\ in_flight' = Append(in_flight, value)
        /\ Store(Heap)
        /\ UNCHANGED host_holds

ReturnFromCall ==
    /\ in_flight # <<>>
    /\ in_flight' = SubSeq(in_flight, 1, Len(in_flight) - 1)
    /\ Store(Heap)
    /\ UNCHANGED host_holds

\* The host gives up its reference to an object that others still hold.
HostRelease ==
    \E r \in ExternRefs :
        /\ host_holds[r] = 1
        /\ ref_count[r] > 1
        /\ \A i \in 1 .. Len(in_flight) : in_flight[i] # r
        /\ host_holds' = [host_holds EXCEPT ![r] = 0]
        /\ Store(mutate_externref_ref_count(Heap, r, -1))
        /\ UNCHANGED in_flight

InitExtern == FuelIdle /\ CallIdle /\ ExternIdle /\ MemIdle /\ EnvIdle /\ RestIdle

NextExtern ==
    \/ TranslateTableGetExternref
    \/ TranslateTableSetExternref
    \/ CallWithExternref
    \/ ReturnFromCall
    \/ HostRelease

SpecExtern == InitExtern /\ [][NextExtern]_vars

(* ------------------------- externref properties ------------------------ *)
TableHolds(r) == Cardinality({i \in Slots : extern_elems[i] = r})
ActivationsHolds(r) == Cardinality({i \in 1 .. Len(activations) : activations[i] = r})
InFlightHolds(r) == Cardinality({i \in 1 .. Len(in_flight) : in_flight[i] = r})

\* The reference count and the host-held references of every object are both 1
\* at the start, so two net changes are equal exactly when the values are.

\* C4 as stated: the reference count of every object has changed by as much as
\* the number of activations-table slots, globals (host-held references) and
\* in-flight argument slots holding it.
C4_BalanceOverActivationsGlobalsArguments ==
    \A r \in ExternRefs \ dropped :
        ref_count[r] = host_holds[r] + ActivationsHolds(r) + InFlightHolds(r)

\* C4 amended: the reference count of every object has changed by as much as
\* the number of table slots, activations-table slots and host-held references
\* holding it; an object is dropped only when nothing holds it.
C4_BalanceOverTableAndActivations ==
    \A r \in ExternRefs :
        /\ ref_count[r] = host_holds[r] + TableHolds(r) + ActivationsHolds(r)
        /\ r \in dropped <=> ref_count[r] = 0

\* C4 witness: one object was dropped, the other is held by the table and the
\* activations table and is the argument of a call in progress.
C4_HeldAndDropped ==
    \E r \in ExternRefs :
        /\ dropped = ExternRefs \ {r}
        /\ TableHolds(r) = 1
        /\ ActivationsHolds(r) >= 1
        /\ in_flight = <<r>>

(* ---------------------------- memories: lowering ----------------------- *)
memory_index_type == IF memory64 THEN I64 ELSE I32

ireduce(ty, val) == SubSeq(val, 1, Digits(ty))

uextend(ty, val) == [k \in 1 .. Digits(ty) |-> IF k <= Len(val) THEN val[k] ELSE 0]

sextend(ty, val) ==
    LET sign == IF val[Len(val)] >= WASM_PAGE_SIZE \div 2 THEN WASM_PAGE_SIZE - 1 ELSE 0
    IN  [k \in 1 .. Digits(ty) |-> IF k <= Len(val) THEN val[k] ELSE sign]

\* udiv_imm by WASM_PAGE_SIZE drops the lowest digit.
udiv_imm(val, imm) == [k \in 1 .. Len(val) |-> IF k < Len(val) THEN val[k + 1] ELSE 0]

\* A cast that zero-extends where the pointer is the narrower type.
cast_pointer_to_memory_index_zero_extending(val) ==
    LET desired_type == memory_index_type
    IN  IF pointer_type = desired_type THEN val
        ELSE IF pointer_type > desired_type THEN ireduce(desired_type, val)
        ELSE uextend(desired_type, val)

cast_pointer_to_memory_index(val) ==
    LET desired_type == memory_index_type
    IN  IF pointer_type = desired_type THEN val
        ELSE IF pointer_type > desired_type THEN ireduce(desired_type, val)
        ELSE sextend(desired_type, val)

\* The instruction cast_pointer_to_memory_index emits.
cast_pointer_to_memory_index_inst ==
    LET desired_type == memory_index_type
    IN  IF pointer_type = desired_type THEN "none"
        ELSE IF pointer_type > desired_type THEN "ireduce"
        ELSE "sextend"

cast_memory_index_to_i64(val) ==
    IF memory_index_type = I64 THEN val ELSE uextend(I64, val)

\* The memory32_grow builtin: it returns the old size in pages, or -1 when the
\* memory cannot grow by delta pages (fail: the host refuses).
memory32_grow(delta, fail) ==
    LET small == \A k \in 2 .. Len(delta) : delta[k] = 0
        grows == ~fail /\ small /\ pages + delta[1] <= MaxPages
    IN  [pages |-> IF grows THEN pages + delta[1] ELSE pages,
         result |-> IF grows THEN Value(pages, pointer_type) ELSE MinusOne(pointer_type)]

translate_memory_grow(val, fail) ==
    LET call_inst == memory32_grow(cast_memory_index_to_i64(val), fail)
    IN  [pages |-> call_inst.pages, returned |-> call_inst.result,
         value |-> cast_pointer_to_memory_index(call_inst.result)]

\* A memory.size that returns the length in bytes.
translate_memory_size_in_bytes ==
    cast_pointer_to_memory_index(
        [k \in 1 .. Digits(pointer_type) |-> IF k = 2 THEN pages ELSE 0])

translate_memory_size ==
    LET current_length_in_bytes ==
            [k \in 1 .. Digits(pointer_type) |-> IF k = 2 THEN pages ELSE 0]
        current_length_in_pages == udiv_imm(current_length_in_bytes, WASM_PAGE_SIZE)
    IN  cast_pointer_to_memory_index(current_length_in_pages)

(* ----------------------------- memories: actions ----------------------- *)
Deltas == {Value(d, memory_index_type) : d \in 0 .. MaxDelta} \cup {MinusOne(memory_index_type)}

TranslateMemoryGrow ==
    \E val \in Deltas, fail \in BOOLEAN :
        LET r == translate_memory_grow(val, fail)
        IN  /\ pages' = r.pages
            /\ mem_last' = [op |-> "memory.grow", delta |-> val,
                            returned |-> r.returned, value |-> r.value,
                            cast |-> cast_pointer_to_memory_index_inst]
            /\ UNCHANGED <<pointer_type, memory64>>
            /\ UNCHANGED <<fuelVars, callVars, externVars, envVars, restVars>>

TranslateMemorySize ==
    /\ mem_last' = [op |-> "memory.size", delta |-> <<>>, returned |-> <<>>,
                    value |-> translate_memory_size,
                    cast |-> cast_pointer_to_memory_index_inst]
    /\ UNCHANGED <<pointer_type, memory64, pages>>
    /\ UNCHANGED <<fuelVars, callVars, externVars, envVars, restVars>>

InitMem ==
    /\ FuelIdle /\ CallIdle /\ ExternIdle /\ EnvIdle /\ RestIdle
    /\ pointer_type \in {I32, I64}
    /\ memory64 \in BOOLEAN
    /\ pages \in 0 .. MaxPages
    /\ mem_last = NoMemLast

NextMem ==
    \/ TranslateMemoryGrow
    \/ TranslateMemorySize

SpecMem == InitMem /\ [][NextMem]_vars

(* ---------------------------- memory properties ------------------------ *)
\* C8: when the memory-grow builtin returns -1 in pointer width, the value
\* memory.grow leaves on the operand stack is -1, all bits set, in the memory's
\* index type, for both pointer widths and both index types.
C8_GrowFailureIsMinusOne ==
    (mem_last.op = "memory.grow" /\ mem_last.returned = MinusOne(pointer_type)) =>
        /\ Len(mem_last.value) = Digits(memory_index_type)
        /\ \A k \in 1 .. Len(mem_last.value) : mem_last.value[k] = WASM_PAGE_SIZE - 1

\* C8 witness: a failed memory.grow of a 64-bit memory on a 32-bit host.
C8_FailedGrowOfMemory64On32BitHost ==
    /\ mem_last.op = "memory.grow"
    /\ pointer_type = I32
    /\ memory64
    /\ mem_last.returned = MinusOne(I32)
    /\ mem_last.value = MinusOne(I64)

\* C16 as claimed: memory.size returns the length in pages in the memory's
\* index type; the page count of a memory64 is zero-extended from pointer
\* width and the page count of a 32-bit memory is sign-extended.
C16_SizeZeroExtendedForMemory64 ==
    mem_last.op = "memory.size" =>
        /\ mem_last.value = Value(pages, memory_index_type)
        /\ (memory64 /\ pointer_type # I64) => mem_last.cast = "uextend"
        /\ (~memory64 /\ pointer_type # I32) => mem_last.cast = "sextend"

\* C16 amended: memory.size returns the byte length divided by 65536 in the
\* memory's index type; the page count of a memory64 on a 32-bit host is
\* sign-extended, which gives the zero-extended value since its upper bit is
\* clear; the page count of a 32-bit memory on a 64-bit host is reduced; with
\* equal widths it is not converted.
C16_MemorySizeInPages ==
    mem_last.op = "memory.size" =>
        /\ mem_last.value = Value(pages, memory_index_type)
        /\ mem_last.value = uextend(memory_index_type, ireduce(I32, mem_last.value))
        /\ mem_last.cast =
              (IF memory64 /\ pointer_type = I32 THEN "sextend"
               ELSE IF ~memory64 /\ pointer_type = I64 THEN "ireduce"
               ELSE "none")

\* C16 witness: memory.size of a non-empty memory64 on a 32-bit host.
C16_SizeOfMemory64On32BitHost ==
    /\ mem_last.op = "memory.size"
    /\ memory64 /\ pointer_type = I32
    /\ pages = MaxPages
    /\ mem_last.value = Value(MaxPages, I64)

(* ------------------------ the vmctx global: lowering ------------------- *)
Env ==
    [vmctx |-> self_vmctx, global_values |-> global_values,
     vmctx_memtypes |-> vmctx_memtypes, handles |-> handles, gv |-> 0,
     pcc_vmctx_memtype |-> pcc_vmctx_memtype, memory_types |-> memory_types,
     global_value_facts |-> global_value_facts, heaps |-> heaps, mt |-> 0]

\* func.create_global_value: the new value's handle is e.gv; it has no fact.
create_global_value(e, data) ==
    [e EXCEPT !.global_values = Append(@, data), !.gv = Len(e.global_values) + 1,
              !.global_value_facts = Append(@, <<>>)]

\* func.create_memory_type: the new type's handle is e.mt.
create_memory_type(e, data) ==
    [e EXCEPT !.memory_types = Append(@, data), !.mt = Len(e.memory_types) + 1]

Load(base, offset) == [kind |-> "Load", base |-> base, offset |-> offset]

\* Fact::Mem { ty, min_offset: 0, max_offset: 0, nullable: false }
Mem(ty) == [kind |-> "Mem", ty |-> ty]

\* Fact::dynamic_base_ptr(ty)
dynamic_base_ptr(ty) == [kind |-> "DynamicMem", ty |-> ty]

\* The body of the closure of FuncEnvironment::vmctx.
new_vmctx(e) ==
    LET e1 == create_global_value(e, [kind |-> "VMContext", base |-> 0, offset |-> "-"])
        e2 == create_memory_type(e1, [kind |-> "Struct", fields |-> <<>>, gv |-> 0])
        e3 == IF enable_pcc
              THEN [e2 EXCEPT !.vmctx_memtypes = @ + 1,
                              !.pcc_vmctx_memtype = <<e2.mt>>,
                              !.global_value_facts[e1.gv] = <<Mem(e2.mt)>>]
              ELSE e1
    IN  [e3 EXCEPT !.vmctx = <<e1.gv>>, !.handles = @ \cup {e1.gv}, !.gv = e1.gv]

\* A vmctx request that creates a global value every time.
vmctx_uncached(e) == new_vmctx(e)

\* FuncEnvironment::vmctx: the handle it returns is e.gv.
vmctx(e) ==
    IF e.vmctx # <<>>
    THEN [e EXCEPT !.gv = e.vmctx[1], !.handles = @ \cup {e.vmctx[1]}]
    ELSE new_vmctx(e)

translate_load_builtin_function_address(e) == vmctx(e)

get_global_location(e, defined) ==
    LET e1 == vmctx(e)
    IN  IF defined THEN e1
        ELSE create_global_value(e1, Load(e1.gv, "vmctx_vmglobal_import_from"))

declare_vmruntime_limits_ptr(e) == vmctx(e)

epoch_ptr(e) == vmctx(e)

make_table(e, defined) ==
    LET e1 == vmctx(e)
        e2 == IF defined THEN e1
              ELSE create_global_value(e1, Load(e1.gv, "vmctx_vmtable_import_from"))
        ptr == e2.gv
        base_gv == create_global_value(e2, Load(ptr, "vmtable_definition_base"))
    IN  create_global_value(base_gv, Load(ptr, "vmtable_definition_current_elements"))

\* fields.push(MemoryTypeField { offset, readonly: true, fact }) on the struct
\* memory type mt.
push_field(e, mt, offset, fact) ==
    [e EXCEPT !.memory_types[mt].fields = Append(@, [offset |-> offset, fact |-> fact])]

\* The Dynamic and Static arms of make_heap: the bound, the memory type of the
\* data and the fields of the vmctx struct.  The result's base_fact and
\* memory_type are <<>> (None) or hold the fact and the type.
heap_style(e, ptr, ptr_memtype, dynamic) ==
    LET e1 == IF dynamic
              THEN create_global_value(e, Load(ptr, "vmmemory_definition_current_length"))
              ELSE e
        heap_bound == IF dynamic THEN e1.gv ELSE 0
        e2 == create_memory_type(e1,
                 IF dynamic
                 THEN [kind |-> "DynamicMemory", fields |-> <<>>, gv |-> heap_bound]
                 ELSE [kind |-> "Memory", fields |-> <<>>, gv |-> 0])
        data_mt == e2.mt
        base_fact == IF dynamic THEN dynamic_base_ptr(data_mt) ELSE Mem(data_mt)
        e3 == push_field(e2, ptr_memtype[1], "vmmemory_definition_base", base_fact)
        e4 == IF dynamic
              THEN push_field(e3, ptr_memtype[1], "vmmemory_definition_current_length",
                              [kind |-> "global_value", ty |-> heap_bound])
              ELSE e3
    IN  IF ptr_memtype # <<>>
        THEN [env |-> e4, bound_gv |-> heap_bound,
              base_fact |-> <<base_fact>>, memory_type |-> <<data_mt>>]
        ELSE [env |-> e1, bound_gv |-> heap_bound,
              base_fact |-> <<>>, memory_type |-> <<>>]

\* HeapData { base, style, memory_type }
HeapData(heap_base, dynamic, bound_gv, memory_type) ==
    [base |-> heap_base, style |-> IF dynamic THEN "Dynamic" ELSE "Static",
     bound_gv |-> bound_gv, memory_type |-> memory_type]

\* make_heap without `func.global_value_facts[heap_base] = base_fact`.
make_heap_without_base_fact(e, memory, dynamic) ==
    LET e1 == vmctx(e)
        e2 == CASE memory = "owned" -> e1
                [] memory = "shared" ->
                      create_global_value(e1, Load(e1.gv, "vmctx_vmmemory_pointer"))
                [] OTHER ->
                      create_global_value(e1, Load(e1.gv, "vmctx_vmmemory_import_from"))
        ptr == e2.gv
        ptr_memtype == IF memory = "owned" THEN e2.pcc_vmctx_memtype ELSE <<>>
        st == heap_style(e2, ptr, ptr_memtype, dynamic)
        e3 == create_global_value(st.env, Load(ptr, "vmmemory_definition_base"))
    IN  [e3 EXCEPT !.heaps =
                      Append(@, HeapData(e3.gv, dynamic, st.bound_gv, st.memory_type))]

\* memory is "owned" (defined, not shared), "shared" (defined) or "imported".
make_heap(e, memory, dynamic) ==
    LET e1 == vmctx(e)
        e2 == CASE memory = "owned" -> e1
                [] memory = "shared" ->
                      create_global_value(e1, Load(e1.gv, "vmctx_vmmemory_pointer"))
                [] OTHER ->
                      create_global_value(e1, Load(e1.gv, "vmctx_vmmemory_import_from"))
        ptr == e2.gv
        ptr_memtype == IF memory = "owned" THEN e2.pcc_vmctx_memtype ELSE <<>>
        st == heap_style(e2, ptr, ptr_memtype, dynamic)
        e3 == create_global_value(st.env, Load(ptr, "vmmemory_definition_base"))
        heap_base == e3.gv
    IN  [e3 EXCEPT !.global_value_facts[heap_base] = st.base_fact,
                   !.heaps = Append(@, HeapData(heap_base, dynamic, st.bound_gv,
                                                st.memory_type))]

(* ------------------------ the vmctx global: actions -------------------- *)
Keep(e) ==
    /\ Len(e.global_values) <= MaxGlobalValues
    /\ self_vmctx' = e.vmctx
    /\ global_values' = e.global_values
    /\ vmctx_memtypes' = e.vmctx_memtypes
    /\ handles' = e.handles
    /\ pcc_vmctx_memtype' = e.pcc_vmctx_memtype
    /\ memory_types' = e.memory_types
    /\ global_value_facts' = e.global_value_facts
    /\ heaps' = e.heaps
    /\ UNCHANGED enable_pcc
    /\ UNCHANGED <<fuelVars, callVars, externVars, memVars, restVars>>

TranslateLoadBuiltinFunctionAddress == Keep(translate_load_builtin_function_address(Env))

GetGlobalLocation == \E defined \in BOOLEAN : Keep(get_global_location(Env, defined))

DeclareVmruntimeLimitsPtr == Keep(declare_vmruntime_limits_ptr(Env))

EpochPtr == Keep(epoch_ptr(Env))

MakeTable == \E defined \in BOOLEAN : Keep(make_table(Env, defined))

MakeHeap ==
    \E memory \in {"owned", "shared", "imported"}, dynamic \in BOOLEAN :
        Keep(make_heap(Env, memory, dynamic))

InitEnv ==
    /\ FuelIdle /\ CallIdle /\ ExternIdle /\ MemIdle /\ RestIdle
    /\ enable_pcc \in BOOLEAN
    /\ self_vmctx = <<>>
    /\ global_values = <<>>
    /\ vmctx_memtypes = 0
    /\ handles = {}
    /\ pcc_vmctx_memtype = <<>>
    /\ memory_types = <<>>
    /\ global_value_facts = <<>>
    /\ heaps = <<>>

NextEnv ==
    \/ TranslateLoadBuiltinFunctionAddress
    \/ GetGlobalLocation
    \/ DeclareVmruntimeLimitsPtr
    \/ EpochPtr
    \/ MakeTable
    \/ MakeHeap

SpecEnv == InitEnv /\ [][NextEnv]_vars

(* ------------------------- vmctx global properties --------------------- *)
VMContexts == {gv \in 1 .. Len(global_values) : global_values[gv].kind = "VMContext"}

\* C10: the function never has more than one VMContext global value; once an
\* operation has asked for the vmctx there is exactly one, every request has
\* returned its handle, and with PCC it has exactly one memory type.
C10_VmctxCreatedOnce ==
    /\ Cardinality(VMContexts) <= 1
    /\ handles = VMContexts
    /\ self_vmctx = <<>> <=> handles = {}
    /\ self_vmctx # <<>> => VMContexts = {self_vmctx[1]}
    /\ vmctx_memtypes = (IF enable_pcc THEN Cardinality(VMContexts) ELSE 0)

\* C10 witness: several operations have asked for the vmctx and created global
\* values that load from it.
C10_VmctxSharedByLoads ==
    /\ Len(global_values) = MaxGlobalValues
    /\ handles # {}
    /\ \E gv \in 1 .. Len(global_values) :
          global_values[gv].kind = "Load" /\ global_values[gv].base \in handles

(* ------------------------------ heap properties ----------------------- *)
\* The heaps make_heap was called for on a defined memory that is not shared:
\* their base is loaded from the vmctx itself.
OwnedHeaps == {h \in 1 .. Len(heaps) : global_values[heaps[h].base].base \in VMContexts}

HasMemFact(h) ==
    LET facts == global_value_facts[heaps[h].base]
    IN  /\ facts # <<>>
        /\ facts[1].kind \in {"Mem", "DynamicMem"}
        /\ heaps[h].memory_type = <<facts[1].ty>>

\* C12 as claimed: with PCC enabled the base pointer of every heap, whatever
\* the memory, carries a Mem fact whose type is the heap's memory type.
C12_EveryHeapBaseHasMemFact ==
    enable_pcc => \A h \in 1 .. Len(heaps) : HasMemFact(h)

\* C12 amended: with PCC enabled the base pointer of every heap of a defined,
\* non-shared memory carries a Mem fact (static) or DynamicMem fact (dynamic)
\* whose type is the heap's memory type, a Memory or a DynamicMemory over the
\* heap's bound; the heaps of imported and of shared memories, and every heap
\* without PCC, have no fact and no memory type.
C12_OwnedHeapBaseHasMemFact ==
    \A h \in 1 .. Len(heaps) :
        IF enable_pcc /\ h \in OwnedHeaps
        THEN /\ HasMemFact(h)
             /\ global_value_facts[heaps[h].base][1].kind =
                   (IF heaps[h].style = "Dynamic" THEN "DynamicMem" ELSE "Mem")
             /\ LET mt == memory_types[heaps[h].memory_type[1]]
                IN  IF heaps[h].style = "Dynamic"
                    THEN mt.kind = "DynamicMemory" /\ mt.gv = heaps[h].bound_gv
                    ELSE mt.kind = "Memory"
        ELSE global_value_facts[heaps[h].base] = <<>> /\ heaps[h].memory_type = <<>>

\* C12 witness: with PCC a static and a dynamic heap of defined memories exist
\* beside the heap of an imported or shared memory.
C12_OwnedAndImportedHeaps ==
    /\ enable_pcc
    /\ \E h \in OwnedHeaps : heaps[h].style = "Dynamic"
    /\ \E h \in OwnedHeaps : heaps[h].style = "Static"
    /\ \E h \in 1 .. Len(heaps) : h \notin OwnedHeaps

(* -------------------- the builtin-signature cache: lowering ------------ *)
Sigs ==
    [cache |-> builtin_function_signatures, signatures |-> signatures,
     imports |-> imports, sig |-> 0]

\* Function::import_signature: a new entry of func.dfg.signatures.
import_signature(s, signature) ==
    [s EXCEPT !.signatures = Append(@, signature), !.sig = Len(s.signatures) + 1]

\* The signature a builtin's schema declares.
BuiltinSignature(name) == [of |-> name, call_conv |-> "default"]

builtin_function_signature_uncached(s, name) ==
    LET t == import_signature(s, BuiltinSignature(name))
    IN  [t EXCEPT !.imports[name] = @ + 1, !.cache[name] = <<t.sig>>]

\* BuiltinFunctionSignatures::$name: self.$name.unwrap_or_else(import), then
\* self.$name = Some(sig).
builtin_function_signature(s, name) ==
    LET t == IF s.cache[name] = <<>>
             THEN [import_signature(s, BuiltinSignature(name))
                      EXCEPT !.imports[name] = @ + 1]
             ELSE [s EXCEPT !.sig = s.cache[name][1]]
    IN  [t EXCEPT !.cache[name] = <<t.sig>>]

get_elem_drop_func(s) == builtin_function_signature(s, "elem_drop")

get_data_drop_func(s) == builtin_function_signature(s, "data_drop")

translate_memory_copy(s) == builtin_function_signature(s, "memory_copy")

translate_memory_fill(s) == builtin_function_signature(s, "memory_fill")

make_indirect_sig(s, index) ==
    import_signature(s, [of |-> "wasm", call_conv |-> "wasm", index |-> index])

(* -------------------- the builtin-signature cache: actions ------------- *)
CanImport == Len(signatures) < MaxSignatures

Referenced(s, name) ==
    /\ builtin_function_signatures' = s.cache
    /\ signatures' = s.signatures
    /\ imports' = s.imports
    /\ sig_refs' = IF name \in Builtins THEN [sig_refs EXCEPT ![name] = @ \cup {s.sig}]
                                       ELSE sig_refs
    /\ UNCHANGED <<fuelVars, callVars, externVars, memVars, envVars, barrierVars, memcheckVars, loopVars>>

GetElemDropFunc == CanImport /\ Referenced(get_elem_drop_func(Sigs), "elem_drop")

GetDataDropFunc == CanImport /\ Referenced(get_data_drop_func(Sigs), "data_drop")

TranslateMemoryCopy == CanImport /\ Referenced(translate_memory_copy(Sigs), "memory_copy")

TranslateMemoryFill == CanImport /\ Referenced(translate_memory_fill(Sigs), "memory_fill")

MakeIndirectSig ==
    /\ CanImport
    /\ \E index \in TypeIndexes : Referenced(make_indirect_sig(Sigs, index), "wasm")

InitSig == FuelIdle /\ CallIdle /\ ExternIdle /\ MemIdle /\ EnvIdle /\ RestIdle

NextSig ==
    \/ GetElemDropFunc
    \/ GetDataDropFunc
    \/ TranslateMemoryCopy
    \/ TranslateMemoryFill
    \/ MakeIndirectSig

SpecSig == InitSig /\ [][NextSig]_vars

(* --------------------- builtin-signature cache properties -------------- *)
\* C11: every builtin's signature is imported into the function at most once:
\* a builtin never referenced has no cached entry and no import; a referenced
\* one has exactly one import, its cached entry is the signature that import
\* created, and every reference to it returned that same signature ref.
C11_BuiltinSignatureImportedOnce ==
    \A b \in Builtins :
        /\ imports[b] = Cardinality({i \in 1 .. Len(signatures) : signatures[i].of = b})
        /\ imports[b] = (IF builtin_function_signatures[b] = <<>> THEN 0 ELSE 1)
        /\ sig_refs[b] = {builtin_function_signatures[b][i] :
                              i \in 1 .. Len(builtin_function_signatures[b])}
        /\ \A sig \in sig_refs[b] : signatures[sig].of = b

\* Two builtins are cached, with another signature imported between them.
C11_TwoBuiltinsCached ==
    /\ Len(signatures) = MaxSignatures
    /\ builtin_function_signatures["memory_copy"] = <<1>>
    /\ builtin_function_signatures["elem_drop"] = <<3>>
    /\ signatures[2].of = "wasm"
    /\ signatures[4].of = "wasm" /\ signatures[5].of = "wasm"

(* ------------ externref barriers, block by block: lowering ------------- *)
\* One block of emitted code executed by a thread: g is the heap the threads
\* share, x the thread's barrier record.  Every block ends in a branch or jump,
\* which sets x.pc to the block executed next.
Ran(g, x, pc) == [g |-> g, x |-> [x EXCEPT !.pc = pc]]

\* translate_table_get on an externref table, the entry block: the element is
\* loaded and tested for null.
table_get_current_block(g, x) ==
    LET elem == g.extern_elems[x.index]
        x1 == [Ins(x, "load elem") EXCEPT !.elem = elem]
    IN  Ran(g, x1, IF elem = 0 THEN "continue_block" ELSE "non_null_elem_block")

\* The bump finger and the bump boundary are loaded and compared.
non_null_elem_block(g, x) ==
    LET next == Len(g.activations)
        end == ActivationsCapacity
        x1 == [Ins(Ins(x, "load next"), "load end") EXCEPT !.next = next, !.end = end]
    IN  Ran(g, x1, IF next = end THEN "gc_block" ELSE "no_gc_block")

gc_block(g, x, keep) ==
    Ran(activations_table_insert_with_gc(g, x.elem, keep),
        Ins(x, "call activations_table_insert_with_gc"), "continue_block")

\* A bump path that stores the element without counting the new reference.
no_gc_block_uncounted(g, x) ==
    LET g1 == [g EXCEPT !.activations = Append(SubSeq(@, 1, x.next), x.elem)]
    IN  Ran(g1, Ins(Ins(x, "store *next"), "store next"), "continue_block")

\* The reference is counted, stored at *next, and next + one reference slot is
\* stored back as the bump finger.
no_gc_block(g, x) ==
    LET g1 == mutate_externref_ref_count(g, x.elem, 1)
        g2 == [g1 EXCEPT !.activations = Append(SubSeq(@, 1, x.next), x.elem)]
        x1 == Ins(Ins(Ins(x, "atomic_rmw add elem"), "store *next"), "store next")
    IN  Ran(g2, x1, "continue_block")

\* translate_table_set on an externref table, the entry block: the slot's
\* address is computed and the new value tested for null.
table_set_current_block(g, x) ==
    Ran(g, Ins(x, "table_addr"),
        IF x.value = 0 THEN "check_current_elem_block" ELSE "inc_ref_count_block")

\* A block that leaves the new value uncounted.
inc_ref_count_block_without_increment(g, x) ==
    Ran(g, x, "check_current_elem_block")

inc_ref_count_block(g, x) ==
    Ran(mutate_externref_ref_count(g, x.value, 1), Ins(x, "atomic_rmw add value"),
        "check_current_elem_block")

\* A load that reads the first slot of the table whatever the index.
check_current_elem_block_load_first_slot(g, x) ==
    Ran(g, [Ins(x, "load current_elem") EXCEPT !.current_elem = g.extern_elems[0]],
        "check_current_elem_block.store")

\* check_current_elem_block is a plain load followed by a plain store: two
\* instructions, between which another thread can run.
check_current_elem_block_load(g, x) ==
    Ran(g, [Ins(x, "load current_elem") EXCEPT !.current_elem = g.extern_elems[x.index]],
        "check_current_elem_block.store")

\* A block that goes on to release a non-null old element with the store
\* still to come.
check_current_elem_block_store_deferred(g, x) ==
    IF x.current_elem = 0
    THEN Ran([g EXCEPT !.extern_elems[x.index] = x.value], Ins(x, "store value"),
             "continue_block")
    ELSE Ran(g, x, "dec_ref_count_block")

check_current_elem_block_store(g, x) ==
    Ran([g EXCEPT !.extern_elems[x.index] = x.value], Ins(x, "store value"),
        IF x.current_elem = 0 THEN "continue_block" ELSE "dec_ref_count_block")

\* A decrement that decides on the count it leaves behind.
dec_ref_count_block_on_new_count(g, x) ==
    LET g1 == mutate_externref_ref_count(g, x.current_elem, -1)
        new_ref_count == g1.ref_count[x.current_elem]
        x1 == [Ins(x, "atomic_rmw sub current_elem") EXCEPT !.prev_ref_count = new_ref_count]
    IN  Ran(g1, x1, IF 1 = new_ref_count THEN "drop_block" ELSE "continue_block")

\* A decrement followed by the drop whatever count it found.
dec_ref_count_block_drop_unconditionally(g, x) ==
    LET prev_ref_count == g.ref_count[x.current_elem]
        g1 == mutate_externref_ref_count(g, x.current_elem, -1)
        x1 == [Ins(x, "atomic_rmw sub current_elem") EXCEPT !.prev_ref_count = prev_ref_count]
    IN  Ran(g1, x1, "drop_block")

\* The atomic decrement returns the count it found.
dec_ref_count_block(g, x) ==
    LET prev_ref_count == g.ref_count[x.current_elem]
        g1 == mutate_externref_ref_count(g, x.current_elem, -1)
        x1 == [Ins(x, "atomic_rmw sub current_elem") EXCEPT !.prev_ref_count = prev_ref_count]
    IN  Ran(g1, x1, IF 1 = prev_ref_count THEN "drop_block" ELSE "continue_block")

drop_block(g, x) ==
    Ran(drop_externref(g, x.current_elem), Ins(x, "call drop_externref"), "continue_block")

\* The block of the read barrier at x.pc.
table_get_externref_block(g, x, keep) ==
    CASE x.pc = "current_block" -> table_get_current_block(g, x)
      [] x.pc = "non_null_elem_block" -> non_null_elem_block(g, x)
      [] x.pc = "gc_block" -> gc_block(g, x, keep)
      [] x.pc = "no_gc_block" -> no_gc_block(g, x)

\* The block (or half block) of the write barrier at x.pc.
table_set_externref_block(g, x) ==
    CASE x.pc = "current_block" -> table_set_current_block(g, x)
      [] x.pc = "inc_ref_count_block" -> inc_ref_count_block(g, x)
      [] x.pc = "check_current_elem_block" -> check_current_elem_block_load(g, x)
      [] x.pc = "check_current_elem_block.store" -> check_current_elem_block_store(g, x)
      [] x.pc = "dec_ref_count_block" -> dec_ref_count_block(g, x)
      [] x.pc = "drop_block" -> drop_block(g, x)

(* ------------- externref barriers, block by block: actions ------------- *)
Quiescent(t) == barrier[t].pc \in {"idle", "continue_block"}

\* before is the heap as the operation found it, kept for a thread that runs
\* alone and <<>> otherwise.
Begin(op, index, value, before) ==
    [NoBarrier EXCEPT !.op = op, !.pc = "current_block", !.index = index,
                      !.value = value, !.before = before]

Found ==
    [extern_elems |-> extern_elems, ref_count |-> ref_count,
     activations |-> activations, dropped |-> dropped]

\* The SSA values of a finished barrier are dead; a thread that runs alone
\* keeps them as the record of its last operation.
Retire(x) == IF x.pc = "continue_block" /\ x.before = <<>> THEN NoBarrier ELSE x

RunBlock(t, r) ==
    /\ extern_elems' = r.g.extern_elems
    /\ ref_count' = r.g.ref_count
    /\ activations' = r.g.activations
    /\ dropped' = r.g.dropped
    /\ barrier' = [barrier EXCEPT ![t] = Retire(r.x)]
    /\ UNCHANGED <<in_flight, host_holds, sigVars, memcheckVars, loopVars>>
    /\ UNCHANGED <<fuelVars, callVars, memVars, envVars>>

\* The operands a thread can have on its stack: null and the live objects
\* the host handed in or a table.get rooted in the activations table.
Operands == {v \in StackValues : v = 0 \/ (v \notin dropped /\ ref_count[v] < MaxRefCount)}

BeginTableGet(t) ==
    /\ Quiescent(t)
    /\ \E index \in Slots :
           RunBlock(t, [g |-> Heap, x |-> Begin("table.get", index, 0, Found)])
    /\ UNCHANGED raced

BeginTableSet(t, before) ==
    /\ Quiescent(t)
    /\ \E index \in Slots, value \in Operands :
           /\ RunBlock(t, [g |-> Heap, x |-> Begin("table.set", index, value, before)])
           /\ raced' = (raced \/ \E u \in Threads \ {t} :
                                    ~Quiescent(u) /\ barrier[u].index = index)

TableGetBlock(t) ==
    /\ ~Quiescent(t)
    /\ barrier[t].op = "table.get"
    /\ \E keep \in Keeps : RunBlock(t, table_get_externref_block(Heap, barrier[t], keep))
    /\ UNCHANGED raced

TableSetBlock(t) ==
    /\ ~Quiescent(t)
    /\ barrier[t].op = "table.set"
    /\ RunBlock(t, table_set_externref_block(Heap, barrier[t]))
    /\ UNCHANGED raced

\* Between operations the host gives up its reference to an object that
\* others still hold.
ReleaseHostReference ==
    /\ \A t \in Threads : Quiescent(t)
    /\ \E r \in ExternRefs :
           /\ host_holds[r] = 1
           /\ ref_count[r] > 1
           /\ host_holds' = [host_holds EXCEPT ![r] = 0]
           /\ ref_count' = [ref_count EXCEPT ![r] = @ - 1]
    /\ barrier' = [t \in Threads |-> NoBarrier]
    /\ UNCHANGED <<extern_elems, activations, in_flight, dropped, raced, sigVars, memcheckVars, loopVars>>
    /\ UNCHANGED <<fuelVars, callVars, memVars, envVars>>

\* SpecBarrier: one thread runs read and write barriers.
InitBarrier == FuelIdle /\ CallIdle /\ ExternIdle /\ MemIdle /\ EnvIdle /\ RestIdle

NextBarrier ==
    \/ BeginTableGet(1)
    \/ TableGetBlock(1)
    \/ BeginTableSet(1, Found)
    \/ TableSetBlock(1)
    \/ ReleaseHostReference

SpecBarrier == InitBarrier /\ [][NextBarrier]_vars

\* SpecThreads: every thread runs write barriers on the shared heap.
ThreadBeginsTableSet == \E t \in Threads : BeginTableSet(t, <<>>)

ThreadRunsTableSetBlock == \E t \in Threads : TableSetBlock(t)

NextThreads ==
    \/ ThreadBeginsTableSet
    \/ ThreadRunsTableSetBlock
    \/ ReleaseHostReference

SpecThreads == InitBarrier /\ [][NextThreads]_vars

(* --------------------- externref barrier properties -------------------- *)
\* The barrier of kind op that thread 1 has just finished.
Finished(op) == barrier[1].op = op /\ barrier[1].pc = "continue_block"

Executed(x, name) == \E i \in 1 .. Len(x.trace) : x.trace[i] = name

Position(x, name) == CHOOSE i \in 1 .. Len(x.trace) : x.trace[i] = name

Times(x, name) == Cardinality({i \in 1 .. Len(x.trace) : x.trace[i] = name})

BuiltinCalls == {"call activations_table_insert_with_gc", "call drop_externref"}

\* C21: a finished table.get on an externref table has loaded the slot's
\* element and (1) for a null element changed no reference count, left the
\* activations table alone and called no builtin; (2) for a non-null element
\* with next = end called activations_table_insert_with_gc and neither counted
\* the reference inline nor stored into the bump region; (3) for a non-null
\* element with next # end added exactly one to the element's count, stored
\* the element at *next and advanced next by one slot.
C21_ExternrefReadBarrier ==
    Finished("table.get") =>
        LET x == barrier[1]
            was == x.before
        IN  /\ x.elem = extern_elems[x.index]
            /\ x.elem = 0 =>
                   /\ ref_count = was.ref_count
                   /\ activations = was.activations
                   /\ \A b \in BuiltinCalls : ~Executed(x, b)
            /\ x.elem # 0 =>
                   /\ x.next = Len(was.activations)
                   /\ x.end = ActivationsCapacity
            /\ (x.elem # 0 /\ x.next = x.end) =>
                   /\ Times(x, "call activations_table_insert_with_gc") = 1
                   /\ ~Executed(x, "atomic_rmw add elem")
                   /\ ~Executed(x, "store *next")
                   /\ ~Executed(x, "store next")
            /\ (x.elem # 0 /\ x.next # x.end) =>
                   /\ Times(x, "atomic_rmw add elem") = 1
                   /\ ref_count = [was.ref_count EXCEPT ![x.elem] = @ + 1]
                   /\ activations = Append(was.activations, x.elem)
                   /\ Len(activations) = x.next + 1
                   /\ \A b \in BuiltinCalls : ~Executed(x, b)

\* C21 witness: a table.get took the bump path for an object that was already
\* rooted once, and the region is now full.
C21_BumpPathFillsRegion ==
    /\ Finished("table.get")
    /\ barrier[1].elem # 0
    /\ barrier[1].next + 1 = barrier[1].end
    /\ activations = <<barrier[1].elem, barrier[1].elem>>
    /\ ref_count[barrier[1].elem] = 4

\* The write barrier thread 1 is executing or has just finished.
InTableSet == barrier[1].op = "table.set"

Before(x, first, second) ==
    Executed(x, second) => (Executed(x, first) /\ Position(x, first) < Position(x, second))

\* C22: in every execution of table.set on an externref table the increment of
\* a non-null new value comes before the store into the slot, and the store
\* comes before the decrement of the old element and before the call of
\* drop_externref; when drop_externref is about to run, and after it ran, the
\* slot holds the new value and the new value is counted.
C22_WriteBarrierOrder ==
    InTableSet =>
        LET x == barrier[1]
        IN  /\ x.value # 0 => Before(x, "atomic_rmw add value", "store value")
            /\ Before(x, "store value", "atomic_rmw sub current_elem")
            /\ Before(x, "store value", "call drop_externref")
            /\ Before(x, "atomic_rmw sub current_elem", "call drop_externref")
            /\ (x.pc = "check_current_elem_block.store" /\ x.value # 0) =>
                   ref_count[x.value] = x.before.ref_count[x.value] + 1
            /\ x.pc \in {"dec_ref_count_block", "drop_block"} =>
                   extern_elems[x.index] = x.value
            /\ Executed(x, "call drop_externref") => extern_elems[x.index] = x.value

\* C22 witness: drop_externref is about to run for an old element that a
\* different, non-null value has replaced.
C22_AboutToDropReplacedElement ==
    /\ InTableSet
    /\ barrier[1].pc = "drop_block"
    /\ barrier[1].value # 0
    /\ barrier[1].current_elem # barrier[1].value
    /\ extern_elems[barrier[1].index] = barrier[1].value

\* The count the decrement of a finished table.set found: the old element's
\* count at the start, and one more when the new value is the old element.
CountFound(x) ==
    LET old == x.before.extern_elems[x.index]
    IN  x.before.ref_count[old] + (IF x.value = old THEN 1 ELSE 0)

InBarriers(r) ==
    Cardinality({t \in Threads :
        /\ barrier[t].value = r
        /\ barrier[t].pc \in {"check_current_elem_block", "check_current_elem_block.store"}})
    + Cardinality({t \in Threads :
        /\ barrier[t].current_elem = r
        /\ barrier[t].pc = "dec_ref_count_block"})

Dropping(t, r) == barrier[t].pc = "drop_block" /\ barrier[t].current_elem = r

SameOldElement ==
    \E t, u \in Threads :
        /\ t # u
        /\ barrier[t].pc = "check_current_elem_block.store"
        /\ barrier[u].pc = "check_current_elem_block.store"
        /\ barrier[t].index = barrier[u].index

\* Once no barrier is running, every count is the number of references held.
DisplacedReleasedOnce ==
    (\A t \in Threads : Quiescent(t)) =>
        \A r \in ExternRefs : ref_count[r] = host_holds[r] + TableHolds(r)

StoresSameObject ==
    /\ InTableSet
    /\ barrier[1].value # 0
    /\ barrier[1].before.extern_elems[barrier[1].index] = barrier[1].value

\* C27: a table.set on an externref table that stores the object the slot
\* already holds never reaches drop_externref, keeps the object's count above
\* zero throughout, and leaves the count and the slot as it found them.
C27_SameObjectIsNotFreed ==
    StoresSameObject =>
        LET x == barrier[1]
        IN  /\ x.before.ref_count[x.value] >= 1
            /\ ref_count[x.value] >= 1
            /\ x.pc # "drop_block"
            /\ ~Executed(x, "call drop_externref")
            /\ x.value \notin dropped
            /\ Finished("table.set") =>
                   /\ ref_count = x.before.ref_count
                   /\ extern_elems = x.before.extern_elems
                   /\ Times(x, "atomic_rmw add value") = 1
                   /\ Times(x, "atomic_rmw sub current_elem") = 1

\* C27 witness: a table.set has stored an object over itself.
C27_StoredOverItself ==
    /\ StoresSameObject
    /\ Finished("table.set")
    /\ barrier[1].current_elem = barrier[1].value
    /\ barrier[1].prev_ref_count = 3

(* --------------------- memory-checker hooks: lowering ------------------ *)
\* c holds the signatures requested and the builtin calls emitted so far.
Hooks == [sigs |-> memcheck_sigs, calls |-> memcheck_calls]

\* self.builtin_function_signatures.$name(builder.func)
memcheck_signature(c, name) == [c EXCEPT !.sigs = @ \cup {name}]

\* builder.ins().call_indirect(sig, addr, ...) to a memory-checker builtin
memcheck_call(c, name) == [c EXCEPT !.calls = @ \cup {name}]

check_malloc_start(c) == memcheck_call(memcheck_signature(c, "malloc_start"), "malloc_start")

check_free_start(c) == memcheck_call(memcheck_signature(c, "free_start"), "free_start")

\* The end of before_translate_function: the hooks chosen by the function's name.
before_translate_function_hooks(c) ==
    IF func_name = "malloc" THEN check_malloc_start(c)
    ELSE IF func_name = "free" THEN check_free_start(c)
    ELSE c

hook_malloc_exit(c, func_args, retvals) ==
    LET c1 == memcheck_signature(c, "check_malloc")
    IN  IF func_args < 3 \/ retvals < 1 THEN c1 ELSE memcheck_call(c1, "check_malloc")

hook_free_exit(c, func_args) ==
    LET c1 == memcheck_signature(c, "check_free")
    IN  IF func_args < 3 THEN c1 ELSE memcheck_call(c1, "check_free")

handle_before_return(c, func_args, retvals) ==
    IF wmemcheck_feature
    THEN IF wmemcheck
         THEN IF func_name = "malloc" THEN hook_malloc_exit(c, func_args, retvals)
              ELSE IF func_name = "free" THEN hook_free_exit(c, func_args)
              ELSE c
         ELSE c
    ELSE memcheck_signature(memcheck_signature(c, "check_malloc"), "check_free")

\* before_load, before_store, update_global and before_memory_grow: with the
\* feature, the call behind self.wmemcheck (and the index test); without it,
\* the signature request alone.
memcheck_hook(c, name, applies) ==
    IF wmemcheck_feature
    THEN IF wmemcheck /\ applies
         THEN memcheck_call(memcheck_signature(c, name), name)
         ELSE c
    ELSE memcheck_signature(c, name)

before_load(c) == memcheck_hook(c, "check_load", TRUE)

before_store(c) == memcheck_hook(c, "check_store", TRUE)

update_global(c, global_index) == memcheck_hook(c, "update_stack_pointer", global_index = 0)

before_memory_grow(c, mem_index) == memcheck_hook(c, "update_mem_size", mem_index = 0)

(* ---------------------- memory-checker hooks: actions ------------------ *)
Hooked(c) ==
    /\ memcheck_sigs' = c.sigs
    /\ memcheck_calls' = c.calls
    /\ UNCHANGED <<wmemcheck_feature, wmemcheck, func_name, sigVars, barrierVars, loopVars>>
    /\ UNCHANGED <<fuelVars, callVars, externVars, memVars, envVars>>

BeforeTranslateFunctionHooks ==
    /\ ~translating
    /\ translating' = TRUE
    /\ Hooked(before_translate_function_hooks(Hooks))

HandleBeforeReturn ==
    /\ translating
    /\ \E func_args \in 2 .. 3, retvals \in 0 .. 1 :
           Hooked(handle_before_return(Hooks, func_args, retvals))
    /\ UNCHANGED translating

BeforeLoad == translating /\ Hooked(before_load(Hooks)) /\ UNCHANGED translating

BeforeStore == translating /\ Hooked(before_store(Hooks)) /\ UNCHANGED translating

UpdateGlobal ==
    /\ translating
    /\ \E global_index \in 0 .. 1 : Hooked(update_global(Hooks, global_index))
    /\ UNCHANGED translating

BeforeMemoryGrow ==
    /\ translating
    /\ \E mem_index \in 0 .. 1 : Hooked(before_memory_grow(Hooks, mem_index))
    /\ UNCHANGED translating

InitMemcheck ==
    /\ FuelIdle /\ CallIdle /\ ExternIdle /\ MemIdle /\ EnvIdle
    /\ SigIdle /\ BarrierIdle /\ LoopIdle
    /\ wmemcheck_feature \in BOOLEAN
    /\ wmemcheck \in (IF wmemcheck_feature THEN BOOLEAN ELSE {FALSE})
    /\ func_name \in FuncNames
    /\ translating = FALSE
    /\ memcheck_sigs = {}
    /\ memcheck_calls = {}

NextMemcheck ==
    \/ BeforeTranslateFunctionHooks
    \/ HandleBeforeReturn
    \/ BeforeLoad
    \/ BeforeStore
    \/ UpdateGlobal
    \/ BeforeMemoryGrow

SpecMemcheck == InitMemcheck /\ [][NextMemcheck]_vars

(* --------------------- memory-checker hook properties ------------------ *)
\* C29: when the memory checker is disabled, by the build or by the flag, no
\* call to a memory-checker builtin is emitted, whatever the function's name;
\* the hooks at most request the builtins' signatures.
C29_NoMemcheckCallsWhenDisabled ==
    ~(wmemcheck_feature /\ wmemcheck) => memcheck_calls \cap MemcheckBuiltins = {}

(* ----------------------- a loop that keeps iterating ------------------- *)
\* The out_of_gas builtin adds no fuel and the scheduler's deadline is epoch + 1.
LoopInput == [NoInput EXCEPT !.new_deadline = epoch + 1]

Calls(m, kind) == Cardinality({i \in 1 .. Len(m.events) : m.events[i].kind = kind})

Looping(m, ph, op) ==
    /\ Write(m, ph, op)
    /\ UNCHANGED <<callVars, externVars, memVars, envVars>>
    /\ UNCHANGED <<sigVars, barrierVars, memcheckVars>>

EnterFunction ==
    /\ phase = "new"
    /\ Looping(before_translate_function(Machine, LoopInput), "body", "entry")
    /\ UNCHANGED loopVars

\* The operator `loop`: before_operator folds the code before the loop, the
\* header block is entered and its checks run, after_operator.
EnterLoop ==
    /\ phase = "body"
    /\ ~in_loop
    /\ LET m1 == before_translate_operator(Machine, "loop")
           m2 == translate_operator(m1, "loop", LoopInput)
           m3 == after_translate_operator(m2, "loop")
       IN  /\ Looping(m3, "body", "loop")
           /\ in_loop' = TRUE
           /\ fuel_at_loop' = m1.fuel_var
           /\ iterations' = 0
           /\ out_of_gas_calls' = Calls(m3, "out_of_gas")

\* A back edge: br, a taken br_if or br_table to the loop's label.  The
\* operator's before_operator code runs, the path jumps to the header block
\* and runs the checks emitted there; the translator is where it was after
\* the header: nothing pending, the loop's frame on top.
IterateLoop ==
    /\ phase = "body"
    /\ in_loop
    /\ out_of_gas_calls = 0
    /\ iterations <= MaxLoopFuel
    /\ iterations' = iterations + 1
    /\ UNCHANGED <<in_loop, fuel_at_loop>>
    /\ \E op \in {"br", "br_if", "br_table"} :
       \E m1 \in {before_translate_operator(Machine, op)} :
       \E m2 \in {translate_loop_header([m1 EXCEPT !.cost = 0, !.charged = 0], LoopInput)} :
           /\ out_of_gas_calls' = Calls(m2, "out_of_gas")
           /\ Looping(m2, "body", "loop")

InitLoop ==
    /\ FuelStart(MaxLoopFuel) /\ tunables.consume_fuel
    /\ CallIdle /\ ExternIdle /\ MemIdle /\ EnvIdle /\ RestIdle

NextLoop ==
    \/ EnterFunction
    \/ TranslatePlain
    \/ TranslateCall
    \/ EnterLoop
    \/ IterateLoop

\* The execution keeps iterating: a back edge that stays possible is taken.
SpecLoop == InitLoop /\ [][NextLoop]_vars /\ WF_vars(IterateLoop)

(* ----------------------------- loop properties ------------------------- *)
\* C30: with fuel metering on and an out_of_gas that adds no fuel, a path that
\* entered a loop with fuel -n and has not yet called out_of_gas at the loop
\* header has passed the header's check with negative fuel on every
\* iteration and has taken fewer than n back edges, each of which raised the
\* fuel variable by at least one; and a path that keeps iterating the loop
\* eventually calls out_of_gas at the header.
C30_IteratingLoopRunsOutOfGas ==
    /\ []((in_loop /\ out_of_gas_calls = 0) =>
             /\ last_site = "loop" => fuel_var < 0
             /\ fuel_var >= fuel_at_loop + iterations
             /\ iterations < 0 - fuel_at_loop)
    /\ [](in_loop => (fuel_at_loop >= 0 => out_of_gas_calls > 0))
    /\ (in_loop ~> out_of_gas_calls > 0)

\* C30 witness: the loop was entered with fuel -2 and the header's check
\* called out_of_gas after the second back edge.
C30_OutOfGasAfterTwoIterations ==
    /\ in_loop
    /\ fuel_at_loop = 0 - 2
    /\ iterations = 2
    /\ out_of_gas_calls = 1
    /\ fuel_var = 0

====
